---- MODULE Spec2Model ----
(***************************************************************************)
(* Control-plane core of the TiDB operator:                                *)
(*   - GetPDClient (pkg/controller/pd_control.go): resolution of a live    *)
(*     PD client with failover over Status.PD.PeerMembers;                 *)
(*   - GuaranteedUpdate (controller utils): optimistic update of a shared  *)
(*     record under retry.RetryOnConflict(retry.DefaultRetry, ...).        *)
(*   - WatchForObject / WatchForController (controller utils): routing of  *)
(*     informer notifications to the reconciliation work queue;            *)
(*   - GetPDMSClient (pkg/controller/pd_control.go): resolution of a live  *)
(*     client of a PD micro service.                                       *)
(* Each component has its own specification (SpecPD, SpecGU, SpecGUC,      *)
(* SpecER, SpecMS; SpecResolvers runs both resolvers); the variables of    *)
(* the other components stay at their initial value.                       *)
(***************************************************************************)
EXTENDS Integers, Sequences, FiniteSets, TLC

VARIABLES
    \* ---- client resolver (GetPDClient) ----
    tc,          \* the TidbCluster descriptor of the running call
    health,      \* endpoints whose GetHealth() succeeds during the call
    rpc,         \* position of the call inside GetPDClient
    pdClient,    \* local variable pdClient (service-level handle)
    idx,         \* position of the range loop over PeerMembers
    built,       \* handles requested from pdControl.GetPDClient, in order
    probes,      \* handles on which GetHealth() was called, in order
    ret,         \* the value GetPDClient returned
    \* ---- guaranteed update (GuaranteedUpdate) ----
    store,       \* the persisted record: value, resourceVersion, existence
    extWrites,   \* number of writes made by clients other than the workers
    gpc,         \* per worker: position inside GuaranteedUpdate
    attempt,     \* per worker: number of the running attempt (1..Steps)
    obj,         \* per worker: the caller's record (client.Object)
    beforeMutation, \* per worker: snapshot taken after the fetch
    updateFunc,  \* per worker: the mutation closure of the call
    result,      \* per worker: error returned by GuaranteedUpdate
    log,         \* per worker: what the call did, in order
    \* ---- event router (WatchForObject, WatchForController) ----
    labelFilter, \* parameter m of WatchForController
    epc,         \* position of the informer's delivery path
    event,       \* the notification being delivered
    trace,       \* what the handler did for that notification
    queue,       \* work queue: keys waiting, in order
    dirty,       \* work queue: keys that need processing
    processing,  \* work queue: keys handed to a worker and not yet done
    addsSinceGet, \* per key: calls of q.Add since the key was last handed out
    \* ---- sub-service client resolver (GetPDMSClient) ----
    msTc,        \* the TidbCluster descriptor of the running call
    serviceName, \* argument serviceName of the running call
    msHealth,    \* endpoints whose GetHealth() succeeds during the call
    mspc,        \* position of the call inside GetPDMSClient
    pdMSClient,  \* local variable pdMSClient (service-level handle)
    svcIdx,      \* position of the range loop over Status.PDMS
    memIdx,      \* position of the range loop over service.Members
    msBuilt,     \* handles requested from pdControl.GetPDMSClient, in order
    msProbes,    \* handles on which GetHealth() was called, in order
    msRet,       \* the value GetPDMSClient returned
    \* ---- owner references (GetOwnerRef and the like) ----
    ownerFn,     \* name of the constructor that was called
    owner,       \* the owner object passed to it
    ownerRef,    \* the metav1.OwnerReference it returned
    \* ---- InferObjectKind and EmptyClone ----
    kindFn,      \* the function that was called: InferObjectKind or EmptyClone
    typeToGVK,   \* scheme.Scheme: what is registered for the type of the argument
    kindArg,     \* the object passed in
    kindRet,     \* what the call returned
    \* ---- GetPDClient of several workers on the shared client cache ----
    pdClients,   \* the handles the shared keyed cache of pdControl holds
    alive,       \* the endpoints that answer a health probe right now
    frames,      \* for each worker, the frame of its GetPDClient call
    \* ---- typed control errors ----
    lastErr,     \* the error value a caller holds, as its chain of wrapped errors
    isRequeue,   \* what IsRequeueError answered for it
    isIgnore     \* what IsIgnoreError answered for it

pdVars == <<tc, health, rpc, pdClient, idx, built, probes, ret>>
guVars == <<store, extWrites, gpc, attempt, obj, beforeMutation, updateFunc, result, log>>
msVars == <<msTc, serviceName, msHealth, mspc, pdMSClient, svcIdx, memIdx,
           msBuilt, msProbes, msRet>>
erVars == <<labelFilter, epc, event, trace, queue, dirty, processing, addsSinceGet>>
orVars == <<ownerFn, owner, ownerRef>>
ocVars == <<kindFn, typeToGVK, kindArg, kindRet>>
pcVars == <<pdClients, alive, frames>>
teVars == <<lastErr, isRequeue, isIgnore>>
vars == <<tc, health, rpc, pdClient, idx, built, probes, ret,
          store, extWrites, gpc, attempt, obj, beforeMutation, updateFunc, result, log,
          labelFilter, epc, event, trace, queue, dirty, processing, addsSinceGet,
          msTc, serviceName, msHealth, mspc, pdMSClient, svcIdx, memIdx,
          msBuilt, msProbes, msRet,
          ownerFn, owner, ownerRef,
          kindFn, typeToGVK, kindArg, kindRet,
          pdClients, alive, frames,
          lastErr, isRequeue, isIgnore>>

\* what an action of one component leaves alone
exceptPD == <<guVars, erVars, msVars, orVars, ocVars, pcVars, teVars>>
exceptGU == <<pdVars, erVars, msVars, orVars, ocVars, pcVars, teVars>>
exceptER == <<pdVars, guVars, msVars, orVars, ocVars, pcVars, teVars>>
exceptMS == <<pdVars, guVars, erVars, orVars, ocVars, pcVars, teVars>>
exceptOR == <<guVars, erVars, msVars, pdVars, ocVars, pcVars, teVars>>
exceptOC == <<guVars, erVars, msVars, orVars, pdVars, pcVars, teVars>>
exceptPC == <<guVars, erVars, msVars, orVars, ocVars, pdVars, teVars>>
exceptTE == <<guVars, erVars, msVars, orVars, ocVars, pcVars, pdVars>>

(***************************************************************************)
(* Bounds                                                                  *)
(***************************************************************************)
\* longest Status.PD.PeerMembers list
MaxPeers == 3

\* writes by other clients of the store during the workers' calls
MaxExtWrites == 5

\* the record's payload ranges over 0..MaxVal
MaxVal == 2

\* writes by other clients of the store while two workers' calls run
MaxConcurrentExtWrites == 1

(***************************************************************************)
(* Client resolver                                                         *)
(***************************************************************************)
PeerIds == 1..MaxPeers

\* v1alpha1.PDMember as far as GetPDClient reads it: Name and ClientURL
PDMember(i) == [Name |-> <<"n", i>>, ClientURL |-> <<"url", i>>]

NoURL == <<"", 0>>
NoName == <<"", 0>>

\* lists of distinct members, in every order, up to MaxPeers long
RECURSIVE PeerLists(_)
PeerLists(n) ==
    IF n = 0 THEN {<<>>}
    ELSE LET shorter == PeerLists(n - 1)
         IN  shorter \cup
             {Append(s, PDMember(i)) : s \in {t \in shorter : Len(t) = n - 1},
                                       i \in PeerIds}

DistinctMembers(s) == \A i, j \in 1..Len(s) : i # j => s[i] # s[j]

PeerMemberLists == {s \in PeerLists(MaxPeers) : DistinctMembers(s)}

\* Spec.Cluster of a heterogeneous cluster
ParentRef == [Namespace |-> "pns", Name |-> "parent", ClusterDomain |-> "pdom"]
NoCluster == [Namespace |-> "", Name |-> "", ClusterDomain |-> ""]

Descriptors ==
    [Namespace : {"ns"}, Name : {"demo"},
     TLS : BOOLEAN, ClusterDomain : {"", "dom"},
     Cluster : {NoCluster, ParentRef}, LocalPD : BOOLEAN,
     AcrossK8s : BOOLEAN, PeerMembers : PeerMemberLists]

NoDescriptor ==
    [Namespace |-> "", Name |-> "", TLS |-> FALSE, ClusterDomain |-> "",
     Cluster |-> NoCluster, LocalPD |-> FALSE, AcrossK8s |-> FALSE,
     PeerMembers |-> <<>>]

\* tc.Heterogeneous(): the cluster names a parent cluster
Heterogeneous(t) == t.Cluster # NoCluster

\* tc.WithoutLocalPD(): the cluster runs no PD of its own
WithoutLocalPD(t) == ~t.LocalPD

\* a handle is identified by the arguments pdControl.GetPDClient was given
Handle(ns, name, tls, certNs, certName, ref, headless, url, member) ==
    [ns |-> ns, name |-> name, tls |-> tls, certNs |-> certNs,
     certName |-> certName, clusterRef |-> ref, headless |-> headless,
     url |-> url, member |-> member, isNil |-> FALSE]

NilClient ==
    [ns |-> "", name |-> "", tls |-> FALSE, certNs |-> "", certName |-> "",
     clusterRef |-> "", headless |-> FALSE, url |-> NoURL, member |-> NoName,
     isNil |-> TRUE]

getPDClientFromService(t) ==
    IF Heterogeneous(t) /\ WithoutLocalPD(t)
    THEN Handle(t.Cluster.Namespace, t.Cluster.Name, t.TLS,
                t.Namespace, t.Name, t.Cluster.ClusterDomain, t.AcrossK8s,
                NoURL, NoName)
    ELSE Handle(t.Namespace, t.Name, t.TLS, "", "", t.ClusterDomain, FALSE,
                NoURL, NoName)

\* pdControl.GetPDClient(ns, name, tls, SpecifyClient(ClientURL, Name))
PeerClient(t, m) ==
    Handle(t.Namespace, t.Name, t.TLS, "", "", "", FALSE, m.ClientURL, m.Name)

\* the endpoint a handle talks to: the pinned URL, or the PD service
ServiceEndpoint == <<"svc", 0>>
Endpoint(h) == IF h.url # NoURL THEN h.url ELSE ServiceEndpoint

\* the endpoints a call on descriptor t can reach
EndpointsOf(t) ==
    {ServiceEndpoint} \cup {t.PeerMembers[i].ClientURL : i \in 1..Len(t.PeerMembers)}

\* pdClient.GetHealth() returns a nil error
GetHealthOK(h) == Endpoint(h) \in health

InitPD ==
    /\ tc = NoDescriptor
    /\ health = {}
    /\ rpc = "idle"
    /\ pdClient = NilClient
    /\ idx = 0
    /\ built = <<>>
    /\ probes = <<>>
    /\ ret = NilClient

\* a reconciler calls GetPDClient(pdControl, tc); the health of the endpoints
\* is the environment's and stays as it is for the duration of the call
ResolveCall ==
    /\ rpc = "idle"
    /\ \E t \in Descriptors : \E h \in SUBSET EndpointsOf(t) :
          /\ tc' = t
          /\ health' = h
    /\ rpc' = "fromService"
    /\ pdClient' = NilClient
    /\ idx' = 0
    /\ built' = <<>>
    /\ probes' = <<>>
    /\ ret' = NilClient
    /\ UNCHANGED exceptPD

\* GetFromService without the early return on an empty PeerMembers
GetFromServiceNoEarlyReturn ==
    /\ rpc = "fromService"
    /\ LET c == getPDClientFromService(tc)
       IN  /\ pdClient' = c
           /\ built' = Append(built, c)
           /\ ret' = ret
           /\ rpc' = "probeService"
    /\ UNCHANGED <<tc, health, idx, probes>>
    /\ UNCHANGED exceptPD

\* pdClient := getPDClientFromService(pdControl, tc)
\* if len(tc.Status.PD.PeerMembers) == 0 { return pdClient }
GetFromService ==
    /\ rpc = "fromService"
    /\ LET c == getPDClientFromService(tc)
       IN  /\ pdClient' = c
           /\ built' = Append(built, c)
           /\ IF Len(tc.PeerMembers) = 0
              THEN /\ ret' = c
                   /\ rpc' = "done"
              ELSE /\ ret' = ret
                   /\ rpc' = "probeService"
    /\ UNCHANGED <<tc, health, idx, probes>>
    /\ UNCHANGED exceptPD

\* ProbeService with the test of err inverted
ProbeServiceInverted ==
    /\ rpc = "probeService"
    /\ probes' = Append(probes, pdClient)
    /\ IF ~GetHealthOK(pdClient)
       THEN /\ ret' = pdClient
            /\ rpc' = "done"
            /\ idx' = idx
       ELSE /\ ret' = ret
            /\ rpc' = "range"
            /\ idx' = 1
    /\ UNCHANGED <<tc, health, pdClient, built>>
    /\ UNCHANGED exceptPD

\* ProbeService that probes the service a second time before giving up on it
ProbeServiceRetries ==
    /\ rpc = "probeService"
    /\ IF GetHealthOK(pdClient)
       THEN /\ probes' = Append(probes, pdClient)
            /\ ret' = pdClient
            /\ rpc' = "done"
            /\ idx' = idx
       ELSE /\ probes' = Append(Append(probes, pdClient), pdClient)
            /\ ret' = ret
            /\ rpc' = "range"
            /\ idx' = 1
    /\ UNCHANGED <<tc, health, pdClient, built>>
    /\ UNCHANGED exceptPD

\* _, err := pdClient.GetHealth(); if err == nil { return pdClient }
ProbeService ==
    /\ rpc = "probeService"
    /\ probes' = Append(probes, pdClient)
    /\ IF GetHealthOK(pdClient)
       THEN /\ ret' = pdClient
            /\ rpc' = "done"
            /\ idx' = idx
       ELSE /\ ret' = ret
            /\ rpc' = "range"
            /\ idx' = 1
    /\ UNCHANGED <<tc, health, pdClient, built>>
    /\ UNCHANGED exceptPD

\* ProbePeer returning pdClient where the code returns pdPeerClient
ProbePeerReturnsService ==
    /\ rpc = "range"
    /\ idx <= Len(tc.PeerMembers)
    /\ LET pdPeerClient == PeerClient(tc, tc.PeerMembers[idx])
       IN  /\ built' = Append(built, pdPeerClient)
           /\ probes' = Append(probes, pdPeerClient)
           /\ IF GetHealthOK(pdPeerClient)
              THEN /\ ret' = pdClient
                   /\ rpc' = "done"
                   /\ idx' = idx
              ELSE /\ ret' = ret
                   /\ rpc' = "range"
                   /\ idx' = idx + 1
    /\ UNCHANGED <<tc, health, pdClient>>
    /\ UNCHANGED exceptPD

\* ProbePeer walking PeerMembers from its last entry to its first
ProbePeerFromEnd ==
    /\ rpc = "range"
    /\ idx <= Len(tc.PeerMembers)
    /\ LET pdPeerClient == PeerClient(tc, tc.PeerMembers[Len(tc.PeerMembers) - idx + 1])
       IN  /\ built' = Append(built, pdPeerClient)
           /\ probes' = Append(probes, pdPeerClient)
           /\ IF GetHealthOK(pdPeerClient)
              THEN /\ ret' = pdPeerClient
                   /\ rpc' = "done"
                   /\ idx' = idx
              ELSE /\ ret' = ret
                   /\ rpc' = "range"
                   /\ idx' = idx + 1
    /\ UNCHANGED <<tc, health, pdClient>>
    /\ UNCHANGED exceptPD

\* one iteration of: for _, pdMember := range tc.Status.PD.PeerMembers
ProbePeer ==
    /\ rpc = "range"
    /\ idx <= Len(tc.PeerMembers)
    /\ LET pdPeerClient == PeerClient(tc, tc.PeerMembers[idx])
       IN  /\ built' = Append(built, pdPeerClient)
           /\ probes' = Append(probes, pdPeerClient)
           /\ IF GetHealthOK(pdPeerClient)
              THEN /\ ret' = pdPeerClient
                   /\ rpc' = "done"
                   /\ idx' = idx
              ELSE /\ ret' = ret
                   /\ rpc' = "range"
                   /\ idx' = idx + 1
    /\ UNCHANGED <<tc, health, pdClient>>
    /\ UNCHANGED exceptPD

\* FailOpen returning nil, as GetPDMSClient does
FailOpenReturnsNil ==
    /\ rpc = "range"
    /\ idx > Len(tc.PeerMembers)
    /\ ret' = NilClient
    /\ rpc' = "done"
    /\ UNCHANGED <<tc, health, pdClient, idx, built, probes>>
    /\ UNCHANGED exceptPD

\* the range is over and no probe succeeded: return pdClient
FailOpen ==
    /\ rpc = "range"
    /\ idx > Len(tc.PeerMembers)
    /\ ret' = pdClient
    /\ rpc' = "done"
    /\ UNCHANGED <<tc, health, pdClient, idx, built, probes>>
    /\ UNCHANGED exceptPD

\* the caller takes the handle and the call's frame is gone; the next
\* reconciliation resolves again
ResolveReturn ==
    /\ rpc = "done"
    /\ tc' = NoDescriptor
    /\ health' = {}
    /\ rpc' = "idle"
    /\ pdClient' = NilClient
    /\ idx' = 0
    /\ built' = <<>>
    /\ probes' = <<>>
    /\ ret' = NilClient
    /\ UNCHANGED exceptPD

NextPD ==
    \/ ResolveCall
    \/ GetFromService
    \/ ProbeService
    \/ ProbePeer
    \/ FailOpen
    \/ ResolveReturn

(***************************************************************************)
(* Properties of the client resolver                                       *)
(***************************************************************************)
ServiceHealthy == ServiceEndpoint \in health

\* positions of PeerMembers whose endpoint is healthy
HealthyPositions ==
    {i \in 1..Len(tc.PeerMembers) : tc.PeerMembers[i].ClientURL \in health}

\* h is the service-level handle of the running call: the first handle the
\* call obtained, not pinned to any member
IsServiceHandle(h) ==
    /\ Len(built) >= 1
    /\ h = built[1]
    /\ h = pdClient
    /\ h.url = NoURL
    /\ h.member = NoName
    /\ ~h.isNil

\* h is pinned to member m of the descriptor
PinnedTo(h, m) == ~h.isNil /\ h.url = m.ClientURL /\ h.member = m.Name

\* C1: with an empty PeerMembers the call never probes anything and returns
\* the service-level handle, the only handle it obtained, whatever the health
\* of the service.
C1_NoPeersNoProbe ==
    (rpc # "idle" /\ Len(tc.PeerMembers) = 0) =>
        /\ probes = <<>>
        /\ rpc = "done" => (IsServiceHandle(ret) /\ Len(built) = 1)

C1_Witness ==
    /\ rpc = "done"
    /\ Len(tc.PeerMembers) = 0
    /\ ~ServiceHealthy
    /\ IsServiceHandle(ret)

\* C2: with at least one peer member and a healthy service the call returns
\* the service-level handle after exactly one probe, of that handle, and
\* neither builds a client for a peer member nor probes one.
C2_HealthyServiceOneProbe ==
    (rpc = "done" /\ Len(tc.PeerMembers) >= 1 /\ ServiceHealthy) =>
        /\ IsServiceHandle(ret)
        /\ probes = <<ret>>
        /\ built = <<ret>>

C2_Witness ==
    /\ rpc = "done"
    /\ Len(tc.PeerMembers) >= 2
    /\ ServiceHealthy
    /\ HealthyPositions # {}
    /\ probes = <<pdClient>>

\* C3: with an unhealthy service and exactly one healthy peer member, at
\* position k, the call returns the handle pinned to that member's URL and
\* name, and it probed the service and then the members 1..k, each once, in
\* the order of the list.
C3_SingleHealthyPeer ==
    \A k \in 1..Len(tc.PeerMembers) :
        (rpc = "done" /\ ~ServiceHealthy /\ HealthyPositions = {k}) =>
            /\ PinnedTo(ret, tc.PeerMembers[k])
            /\ Len(probes) = k + 1
            /\ IsServiceHandle(probes[1])
            /\ \A i \in 1..k : PinnedTo(probes[i + 1], tc.PeerMembers[i])

\* peers [{n1,url1},{n2,url2}], only url2 healthy
C3_Witness ==
    /\ rpc = "done"
    /\ tc.PeerMembers = <<PDMember(1), PDMember(2)>>
    /\ health = {PDMember(2).ClientURL}
    /\ PinnedTo(ret, PDMember(2))
    /\ Len(probes) = 3

\* C4: when neither the service nor any peer member is healthy the call
\* returns the service-level handle; no call ever returns nil.
C4_FailOpen ==
    rpc = "done" =>
        /\ ~ret.isNil
        /\ (~ServiceHealthy /\ HealthyPositions = {}) => IsServiceHandle(ret)

C4_Witness ==
    /\ rpc = "done"
    /\ Len(tc.PeerMembers) >= 2
    /\ health = {}
    /\ Len(probes) = Len(tc.PeerMembers) + 1
    /\ IsServiceHandle(ret)

(***************************************************************************)
(* Guaranteed update                                                       *)
(***************************************************************************)
Workers == {"w1", "w2"}

\* retry.DefaultRetry: wait.Backoff{Steps: 5, ...}, the attempts of one call
Steps == 5

Values == 0..MaxVal

\* errors as the retry loop classifies them; "nil" is success
Errors == {"nil", "Conflict", "NotFound", "Internal", "Failed"}

\* errors.IsConflict, the retriable predicate of retry.RetryOnConflict
IsConflict(err) == err = "Conflict"

\* the mutation closures callers pass as updateFunc
UpdateFuncs == {"noop", "inc", "set", "fail", "failConflict"}

\* the record after updateFunc ran on it (a failing closure had already
\* changed the record when it failed)
Mutate(f, o) ==
    CASE f = "noop" -> o
      [] f = "inc" -> [o EXCEPT !.val = (o.val + 1) % (MaxVal + 1)]
      [] f = "set" -> [o EXCEPT !.val = MaxVal]
      [] f = "fail" -> [o EXCEPT !.val = (o.val + 1) % (MaxVal + 1)]
      [] f = "failConflict" -> [o EXCEPT !.val = (o.val + 1) % (MaxVal + 1)]

\* the error updateFunc returns
MutateErr(f) ==
    CASE f = "fail" -> "Failed"
      [] f = "failConflict" -> "Conflict"
      [] OTHER -> "nil"

NoWrite == [done |-> FALSE, val |-> 0, rv |-> 0, prevRv |-> 0, prevVal |-> 0]
NoServed == [val |-> 0, rv |-> 0]

InitGU ==
    /\ store = [val |-> 0, rv |-> 1, exists |-> TRUE, by |-> "init"]
    /\ extWrites = 0
    /\ gpc = [w \in Workers |-> "idle"]
    /\ attempt = [w \in Workers |-> 0]
    /\ obj = [w \in Workers |-> [val |-> 0, rv |-> 0]]
    /\ beforeMutation = [w \in Workers |-> [val |-> 0, rv |-> 0]]
    /\ updateFunc = [w \in Workers |-> "noop"]
    /\ result = [w \in Workers |-> "nil"]
    /\ log = [w \in Workers |->
                [events |-> <<>>, served |-> NoServed, written |-> NoWrite]]

Event(w, op, err) == [op |-> op, err |-> err, att |-> attempt[w]]

Logged(w, op, err) ==
    [log EXCEPT ![w].events = Append(@, Event(w, op, err))]

\* FnReturns taking a spent budget for success
FnReturnsSilentSuccess(w, err) ==
    IF err # "nil" /\ IsConflict(err) /\ attempt[w] < Steps
    THEN /\ gpc' = [gpc EXCEPT ![w] = "get"]
         /\ attempt' = [attempt EXCEPT ![w] = @ + 1]
         /\ result' = result
    ELSE /\ gpc' = [gpc EXCEPT ![w] = "done"]
         /\ attempt' = attempt
         /\ result' = [result EXCEPT ![w] = IF IsConflict(err) THEN "nil" ELSE err]

\* FnReturns retrying on every error, not only on a conflict
FnReturnsRetryAll(w, err) ==
    IF err # "nil" /\ attempt[w] < Steps
    THEN /\ gpc' = [gpc EXCEPT ![w] = "get"]
         /\ attempt' = [attempt EXCEPT ![w] = @ + 1]
         /\ result' = result
    ELSE /\ gpc' = [gpc EXCEPT ![w] = "done"]
         /\ attempt' = attempt
         /\ result' = [result EXCEPT ![w] = err]

\* FnReturns without any retry
FnReturnsNoRetry(w, err) ==
    /\ gpc' = [gpc EXCEPT ![w] = "done"]
    /\ attempt' = attempt
    /\ result' = [result EXCEPT ![w] = err]

\* FnReturns that retries a conflict without counting the attempts
FnReturnsNoBudget(w, err) ==
    IF err # "nil" /\ IsConflict(err)
    THEN /\ gpc' = [gpc EXCEPT ![w] = "get"]
         /\ attempt' = [attempt EXCEPT ![w] = @ + 1]
         /\ result' = result
    ELSE /\ gpc' = [gpc EXCEPT ![w] = "done"]
         /\ attempt' = attempt
         /\ result' = [result EXCEPT ![w] = err]

\* retry.RetryOnConflict(retry.DefaultRetry, fn) after fn returned err in
\* the running attempt: nil ends the call, a conflict starts the next
\* attempt while the budget lasts and is returned when it is spent, any
\* other error is returned at once
FnReturns(w, err) ==
    IF err # "nil" /\ IsConflict(err) /\ attempt[w] < Steps
    THEN /\ gpc' = [gpc EXCEPT ![w] = "get"]
         /\ attempt' = [attempt EXCEPT ![w] = @ + 1]
         /\ result' = result
    ELSE /\ gpc' = [gpc EXCEPT ![w] = "done"]
         /\ attempt' = attempt
         /\ result' = [result EXCEPT ![w] = err]

\* a worker calls GuaranteedUpdate(cli, obj, updateFunc) with the record it
\* holds, whatever its content
GUCall(w) ==
    /\ gpc[w] = "idle"
    /\ \E f \in UpdateFuncs : updateFunc' = [updateFunc EXCEPT ![w] = f]
    /\ \E v \in Values : obj' = [obj EXCEPT ![w] = [val |-> v, rv |-> 0]]
    /\ gpc' = [gpc EXCEPT ![w] = "get"]
    /\ attempt' = [attempt EXCEPT ![w] = 1]
    /\ UNCHANGED <<store, extWrites, beforeMutation, result, log>>
    /\ UNCHANGED exceptGU

\* GUGet refreshing only the resourceVersion of obj after the first attempt,
\* so that the mutation piles up over the attempts
GUGetKeepsContent(w) ==
    /\ gpc[w] = "get"
    /\ \/ /\ store.exists
          /\ LET v == IF attempt[w] > 1 THEN obj[w].val ELSE store.val
             IN  /\ obj' = [obj EXCEPT ![w] = [val |-> v, rv |-> store.rv]]
                 /\ beforeMutation' =
                       [beforeMutation EXCEPT ![w] = [val |-> v, rv |-> store.rv]]
          /\ log' = [Logged(w, "get", "nil") EXCEPT
                       ![w].served = [val |-> store.val, rv |-> store.rv]]
          /\ gpc' = [gpc EXCEPT ![w] = "mutate"]
          /\ UNCHANGED <<attempt, result>>
       \/ /\ ~store.exists
          /\ log' = Logged(w, "get", "NotFound")
          /\ FnReturns(w, "NotFound")
          /\ UNCHANGED <<obj, beforeMutation>>
       \/ /\ log' = Logged(w, "get", "Internal")
          /\ FnReturns(w, "Internal")
          /\ UNCHANGED <<obj, beforeMutation>>
    /\ UNCHANGED <<store, extWrites, updateFunc>>
    /\ UNCHANGED exceptGU

\* cli.Get(ctx, key, obj); beforeMutation := obj.DeepCopyObject()
GUGet(w) ==
    /\ gpc[w] = "get"
    /\ \/ /\ store.exists
          /\ obj' = [obj EXCEPT ![w] = [val |-> store.val, rv |-> store.rv]]
          /\ beforeMutation' =
                [beforeMutation EXCEPT ![w] = [val |-> store.val, rv |-> store.rv]]
          /\ log' = [Logged(w, "get", "nil") EXCEPT
                       ![w].served = [val |-> store.val, rv |-> store.rv]]
          /\ gpc' = [gpc EXCEPT ![w] = "mutate"]
          /\ UNCHANGED <<attempt, result>>
       \/ /\ ~store.exists
          /\ log' = Logged(w, "get", "NotFound")
          /\ FnReturns(w, "NotFound")
          /\ UNCHANGED <<obj, beforeMutation>>
       \/ /\ log' = Logged(w, "get", "Internal")
          /\ FnReturns(w, "Internal")
          /\ UNCHANGED <<obj, beforeMutation>>
    /\ UNCHANGED <<store, extWrites, updateFunc>>
    /\ UNCHANGED exceptGU

\* GUMutate without the DeepEqual short cut
GUMutateNoCompare(w) ==
    /\ gpc[w] = "mutate"
    /\ LET f == updateFunc[w]
           o == Mutate(f, obj[w])
           err == MutateErr(f)
       IN  /\ obj' = [obj EXCEPT ![w] = o]
           /\ log' = Logged(w, "mutate", err)
           /\ IF err # "nil"
              THEN FnReturns(w, err)
              ELSE /\ gpc' = [gpc EXCEPT ![w] = "update"]
                   /\ UNCHANGED <<attempt, result>>
    /\ UNCHANGED <<store, extWrites, beforeMutation, updateFunc>>
    /\ UNCHANGED exceptGU

\* GUMutate dropping the error of updateFunc
GUMutateIgnoresError(w) ==
    /\ gpc[w] = "mutate"
    /\ LET f == updateFunc[w]
           o == Mutate(f, obj[w])
           err == MutateErr(f)
       IN  /\ obj' = [obj EXCEPT ![w] = o]
           /\ log' = Logged(w, "mutate", err)
           /\ IF o = beforeMutation[w]
              THEN FnReturns(w, "nil")
              ELSE /\ gpc' = [gpc EXCEPT ![w] = "update"]
                   /\ UNCHANGED <<attempt, result>>
    /\ UNCHANGED <<store, extWrites, beforeMutation, updateFunc>>
    /\ UNCHANGED exceptGU

\* updateFunc(), then apiequality.Semantic.DeepEqual(obj, beforeMutation)
GUMutate(w) ==
    /\ gpc[w] = "mutate"
    /\ LET f == updateFunc[w]
           o == Mutate(f, obj[w])
           err == MutateErr(f)
       IN  /\ obj' = [obj EXCEPT ![w] = o]
           /\ log' = Logged(w, "mutate", err)
           /\ IF err # "nil"
              THEN FnReturns(w, err)
              ELSE IF o = beforeMutation[w]
                   THEN FnReturns(w, "nil")
                   ELSE /\ gpc' = [gpc EXCEPT ![w] = "update"]
                        /\ UNCHANGED <<attempt, result>>
    /\ UNCHANGED <<store, extWrites, beforeMutation, updateFunc>>
    /\ UNCHANGED exceptGU

\* GUUpdate on a store that takes every write, whatever its resourceVersion
GUUpdateBlind(w) ==
    /\ gpc[w] = "update"
    /\ \/ /\ store.exists
          /\ store' = [val |-> obj[w].val, rv |-> store.rv + 1,
                       exists |-> TRUE, by |-> w]
          /\ log' = [Logged(w, "update", "nil") EXCEPT
                       ![w].written = [done |-> TRUE, val |-> obj[w].val,
                                       rv |-> store.rv + 1, prevRv |-> store.rv,
                                       prevVal |-> store.val]]
          /\ FnReturns(w, "nil")
       \/ /\ ~store.exists
          /\ log' = Logged(w, "update", "NotFound")
          /\ FnReturns(w, "NotFound")
          /\ UNCHANGED store
    /\ UNCHANGED <<extWrites, obj, beforeMutation, updateFunc>>
    /\ UNCHANGED exceptGU

\* cli.Update(ctx, obj): the store accepts the record when its
\* resourceVersion is the stored one and answers Conflict when it is stale
GUUpdate(w) ==
    /\ gpc[w] = "update"
    /\ \/ /\ store.exists
          /\ obj[w].rv = store.rv
          /\ store' = [val |-> obj[w].val, rv |-> store.rv + 1,
                       exists |-> TRUE, by |-> w]
          /\ log' = [Logged(w, "update", "nil") EXCEPT
                       ![w].written = [done |-> TRUE, val |-> obj[w].val,
                                       rv |-> store.rv + 1, prevRv |-> store.rv,
                                       prevVal |-> store.val]]
          /\ FnReturns(w, "nil")
       \/ /\ store.exists
          /\ obj[w].rv # store.rv
          /\ log' = Logged(w, "update", "Conflict")
          /\ FnReturns(w, "Conflict")
          /\ UNCHANGED store
       \/ /\ ~store.exists
          /\ log' = Logged(w, "update", "NotFound")
          /\ FnReturns(w, "NotFound")
          /\ UNCHANGED store
       \/ /\ log' = Logged(w, "update", "Internal")
          /\ FnReturns(w, "Internal")
          /\ UNCHANGED store
    /\ UNCHANGED <<extWrites, obj, beforeMutation, updateFunc>>
    /\ UNCHANGED exceptGU

\* another client of the store writes the record
ExtUpdate ==
    /\ store.exists
    /\ extWrites < MaxExtWrites
    /\ \E v \in Values :
          store' = [val |-> v, rv |-> store.rv + 1, exists |-> TRUE, by |-> "ext"]
    /\ extWrites' = extWrites + 1
    /\ UNCHANGED <<gpc, attempt, obj, beforeMutation, updateFunc, result, log>>
    /\ UNCHANGED exceptGU

\* another client of the store deletes the record
ExtDelete ==
    /\ store.exists
    /\ extWrites < MaxExtWrites
    /\ store' = [store EXCEPT !.exists = FALSE, !.by = "ext"]
    /\ extWrites' = extWrites + 1
    /\ UNCHANGED <<gpc, attempt, obj, beforeMutation, updateFunc, result, log>>
    /\ UNCHANGED exceptGU

\* the worker whose call is followed; the writes of every other client of
\* the store are ExtUpdate and ExtDelete
Caller == "w1"

NextGU ==
    \/ GUCall(Caller)
    \/ GUGet(Caller)
    \/ GUMutate(Caller)
    \/ GUUpdate(Caller)
    \/ ExtUpdate
    \/ ExtDelete

\* a write or a delete by another client while the workers' calls run
OtherClientWrites ==
    /\ extWrites < MaxConcurrentExtWrites
    /\ (ExtUpdate \/ ExtDelete)

\* several reconciler workers call GuaranteedUpdate on the same record,
\* next to the other clients of the store
NextGUC ==
    \/ \E w \in Workers : GUCall(w)
    \/ \E w \in Workers : GUGet(w)
    \/ \E w \in Workers : GUMutate(w)
    \/ \E w \in Workers : GUUpdate(w)
    \/ OtherClientWrites

(***************************************************************************)
(* Event router                                                            *)
(***************************************************************************)
\* longest ownerReferences list of a notified object
MaxOwners == 2

\* calls of q.Add for one key while the key waits for a worker
MaxPendingAdds == 2

Namespaces == {"ns"}

\* names of the controllers that owner references name; also the names of
\* the objects watched directly
ControllerNames == <<"tc1", "tc2">>

\* name of the objects watched through their controller
DependentName == "sts"

\* a map[string]string as its set of key/value pairs
LabelSets == { {},
               {<<"app", "x">>},
               {<<"app", "y">>},
               {<<"app", "x">>, <<"tier", "db">>} }

\* parameter m of WatchForController: nil, or a (possibly empty) map
NilMap == [isNil |-> TRUE, kv |-> {}]
LabelFilters ==
    {NilMap} \cup { [isNil |-> FALSE, kv |-> s] :
                      s \in { {}, {<<"app", "x">>}, {<<"app", "x">>, <<"tier", "db">>} } }

\* OwnerReference.APIVersion as its "/"-separated segments
APIVersions == { <<"pingcap.com", "v1alpha1">>, <<"apps", "v1">>, <<"a", "b", "c">> }

OwnerKind == "TidbCluster"

\* the owner named at position i of ownerReferences: neighbours differ
OwnerName(i) == ControllerNames[((i - 1) % Len(ControllerNames)) + 1]

\* the owner references an object can carry at position i (Controller is a
\* *bool in the source: nil and false both read as FALSE)
OwnerRefs(i) ==
    { [APIVersion |-> v, Kind |-> OwnerKind, Name |-> OwnerName(i), Controller |-> TRUE] :
        v \in APIVersions }
    \cup { [APIVersion |-> <<"pingcap.com", "v1alpha1">>, Kind |-> OwnerKind,
            Name |-> OwnerName(i), Controller |-> FALSE] }

NoRef == [APIVersion |-> <<>>, Kind |-> "", Name |-> "", Controller |-> FALSE]

RECURSIVE OwnerLists(_)
OwnerLists(n) ==
    IF n = 0 THEN { <<>> }
    ELSE LET shorter == OwnerLists(n - 1)
         IN  shorter \cup { Append(s, r) : s \in { x \in shorter : Len(x) = n - 1 },
                                           r \in OwnerRefs(n) }

\* what an informer hands to a handler: an API object (metav1.Object) or,
\* for a deletion it did not observe, a cache.DeletedFinalStateUnknown
\* tombstone holding the key of the deleted object
Object(ns, name, labels, owners) ==
    [type |-> "object", namespace |-> ns, name |-> name,
     labels |-> labels, ownerReferences |-> owners]
Tombstone(ns, name) ==
    [type |-> "tombstone", namespace |-> ns, name |-> name,
     labels |-> {}, ownerReferences |-> <<>>]
NoObject ==
    [type |-> "none", namespace |-> "", name |-> "", labels |-> {}, ownerReferences |-> <<>>]

\* a value that is neither: the handlers take interface{}, and fn answers a
\* runtime.Object, which need not carry object metadata
NotAnObject ==
    [type |-> "other", namespace |-> "", name |-> "", labels |-> {}, ownerReferences |-> <<>>]

\* the objects of the informer given to WatchForObject
WatchedObjects ==
    { Object(ns, ControllerNames[i], {}, <<>>) :
        ns \in Namespaces, i \in DOMAIN ControllerNames }

\* the objects of the informer given to WatchForController
WatchedDependents ==
    { Object(ns, DependentName, l, s) :
        ns \in Namespaces, l \in LabelSets, s \in OwnerLists(MaxOwners) }

\* earlier versions of a dependent, as UpdateFunc receives them
OldDependents ==
    { Object(ns, DependentName, {<<"app", "x">>, <<"tier", "db">>}, s) :
        ns \in Namespaces,
        s \in { <<>>, << [APIVersion |-> <<"pingcap.com", "v1alpha1">>, Kind |-> OwnerKind,
                          Name |-> ControllerNames[2], Controller |-> TRUE] >> } }

NotificationTypes == {"add", "update", "delete"}

Notification(watch, type, old, cur) ==
    [watch |-> watch, type |-> type, old |-> old, cur |-> cur]
NoNotification == Notification("none", "none", NoObject, NoObject)

\* the notifications an informer can deliver to the handlers of one watch
NotificationsOf(watch, objects, olds) ==
    { Notification(watch, "add", NoObject, o) : o \in objects }
    \cup { Notification(watch, "update", p, o) : p \in olds, o \in objects }
    \cup { Notification(watch, "delete", NoObject, o) :
             o \in objects \cup { Tombstone(x.namespace, x.name) : x \in objects } }

\* what GetControllerFn answers: the object of that namespace and name,
\* of some kind and group, a not-found error or another error; meta tells
\* whether the answered object carries object metadata, as every API object
\* of a lister does
LookupKinds == {"TidbCluster", "Backup"}
LookupGroups == {"pingcap.com", "apps"}
LookupResults ==
    { [err |-> "nil", kind |-> k, group |-> g, meta |-> TRUE] :
        k \in LookupKinds, g \in LookupGroups }
    \cup { [err |-> e, kind |-> "", group |-> "", meta |-> FALSE] : e \in {"NotFound", "Other"} }

NoLookup == [err |-> "none", kind |-> "", group |-> "", meta |-> FALSE]

\* the handlers as code that is handed anything: values that are no API
\* objects besides the informers' notifications (of dependents with at most
\* one owner reference), and answers of fn without object metadata
AnyNotifications ==
    { [watch |-> w, type |-> t, old |-> NoObject, cur |-> NotAnObject] :
        w \in {"object", "controller"}, t \in NotificationTypes }
    \cup NotificationsOf("object", WatchedObjects, WatchedObjects)
    \cup NotificationsOf("controller",
                         { o \in WatchedDependents : Len(o.ownerReferences) <= 1 },
                         OldDependents)
AnyLookupResults ==
    LookupResults
    \cup { [err |-> "nil", kind |-> k, group |-> g, meta |-> FALSE] :
             k \in LookupKinds, g \in LookupGroups }

\* work-queue keys: cache.MetaNamespaceKeyFunc gives "namespace/name", or
\* "name" alone when the namespace is empty
MetaNamespaceKey(ns, name) == IF ns = "" THEN <<name>> ELSE <<ns, name>>

Keys ==
    { MetaNamespaceKey(ns, name) :
        ns \in Namespaces,
        name \in { ControllerNames[i] : i \in DOMAIN ControllerNames } \cup {DependentName} }

\* cache.DeletionHandlingMetaNamespaceKeyFunc: the key a tombstone holds, else
\* the key of the object's metadata, else an error
DeletionHandlingMetaNamespaceKeyFunc(o) ==
    IF o.type \in {"object", "tombstone"}
    THEN [err |-> FALSE, key |-> MetaNamespaceKey(o.namespace, o.name)]
    ELSE [err |-> TRUE, key |-> <<>>]

\* util.IsSubMapOf(first, second)
IsSubMapOf(first, second) == first \subseteq second

GetControllerOfAnyOwner(o) ==
    IF o.ownerReferences = <<>> THEN NoRef ELSE o.ownerReferences[1]

\* metav1.GetControllerOf: the first owner reference marked as controller
GetControllerOf(o) ==
    LET c == { i \in DOMAIN o.ownerReferences : o.ownerReferences[i].Controller }
    IN  IF c = {} THEN NoRef
        ELSE o.ownerReferences[CHOOSE i \in c : \A j \in c : i <= j]

\* schema.ParseGroupVersion on the segments of "group/version"
ParseGroupVersion(v) ==
    CASE Len(v) = 0 -> [err |-> FALSE, Group |-> "", Version |-> ""]
      [] Len(v) = 1 -> [err |-> FALSE, Group |-> "", Version |-> v[1]]
      [] Len(v) = 2 -> [err |-> FALSE, Group |-> v[1], Version |-> v[2]]
      [] OTHER      -> [err |-> TRUE, Group |-> "", Version |-> ""]

\* what a handler did for one notification: whether it read the labels, the
\* calls of fn and its answer, the keys passed to q.Add and the number of
\* calls of utilruntime.HandleError
NoTrace ==
    [labelsRead |-> FALSE, lookups |-> <<>>, answer |-> NoLookup, adds |-> <<>>, errors |-> 0]

\* the handlers WatchForObject registers: the object that AddFunc,
\* UpdateFunc and DeleteFunc pass to enqueueFn
ObjectHandlerFuncsUseOld(n) ==
    CASE n.type = "add"    -> n.cur
      [] n.type = "update" -> n.old
      [] n.type = "delete" -> n.cur

ObjectHandlerFuncs(n) ==
    CASE n.type = "add"    -> n.cur
      [] n.type = "update" -> n.cur
      [] n.type = "delete" -> n.cur

\* the handlers WatchForController registers
ControllerHandlerFuncs(n) ==
    CASE n.type = "add"    -> n.cur
      [] n.type = "update" -> n.cur
      [] n.type = "delete" -> n.cur

\* enqueueFn of WatchForObject that drops the error of the key function
objectEnqueueFnSilent(o) ==
    LET k == DeletionHandlingMetaNamespaceKeyFunc(o)
    IN  IF k.err THEN NoTrace
        ELSE [NoTrace EXCEPT !.adds = <<k.key>>]

\* enqueueFn of WatchForObject
objectEnqueueFn(o) ==
    LET k == DeletionHandlingMetaNamespaceKeyFunc(o)
    IN  IF k.err THEN [NoTrace EXCEPT !.errors = 1]
        ELSE [NoTrace EXCEPT !.adds = <<k.key>>]

\* if m != nil { if !util.IsSubMapOf(m, meta.GetLabels()) { return } }
ReadsLabels == ~labelFilter.isNil

FilteredOutNever(o) == FALSE

FilteredOut(o) == ReadsLabels /\ ~IsSubMapOf(labelFilter.kv, o.labels)

\* a failed lookup: errors.IsNotFound is logged at V(4), any other error
\* goes to utilruntime.HandleError
LookupErrorReportsAll(r) == 1

LookupErrorReports(r) == IF r.err = "NotFound" THEN 0 ELSE 1

\* "Ensure the ref is exactly the controller we listed"
IsListedControllerKindOnly(ref, refGV, r) == ref.Kind = r.kind

IsListedController(ref, refGV, r) ==
    /\ ref.Kind = r.kind
    /\ refGV.Group = r.group

\* controllerObj, the object fn(meta.GetNamespace(), ref.Name) returned
ControllerObjIsDependent(o, ref, r) == o

ControllerObj(o, ref, r) ==
    IF r.meta THEN Object(o.namespace, ref.Name, {}, <<>>) ELSE NotAnObject

\* enqueueFn of WatchForController; r is what fn answers if it is called
controllerEnqueueFn(o, r) ==
    IF o.type # "object" THEN [NoTrace EXCEPT !.errors = 1]
    ELSE IF FilteredOut(o) THEN [NoTrace EXCEPT !.labelsRead = TRUE]
    ELSE
      LET read == [NoTrace EXCEPT !.labelsRead = ReadsLabels]
          ref == GetControllerOf(o)
          refGV == ParseGroupVersion(ref.APIVersion)
          looked == [read EXCEPT !.lookups = << <<o.namespace, ref.Name>> >>, !.answer = r]
          k == DeletionHandlingMetaNamespaceKeyFunc(ControllerObj(o, ref, r))
      IN  IF ref = NoRef THEN read
          ELSE IF refGV.err THEN [read EXCEPT !.errors = 1]
          ELSE IF r.err # "nil" THEN [looked EXCEPT !.errors = LookupErrorReports(r)]
          ELSE IF ~IsListedController(ref, refGV, r) THEN looked
          ELSE IF k.err THEN [looked EXCEPT !.errors = 1]
          ELSE [looked EXCEPT !.adds = <<k.key>>]

InitER ==
    /\ labelFilter = NilMap
    /\ epc = "unregistered"
    /\ event = NoNotification
    /\ trace = NoTrace
    /\ queue = <<>>
    /\ dirty = {}
    /\ processing = {}
    /\ addsSinceGet = [k \in Keys |-> 0]

\* the operator starts: WatchForObject(informer, q) on the informer of the
\* controllers and WatchForController(informer, q, fn, m) on the informer
\* of their dependents, both on the same queue
RegisterWatches ==
    /\ epc = "unregistered"
    /\ labelFilter' \in LabelFilters
    /\ epc' = "idle"
    /\ UNCHANGED <<event, trace, queue, dirty, processing, addsSinceGet>>
    /\ UNCHANGED exceptER

\* an informer delivers an add, update or delete notification
Notify ==
    /\ epc = "idle"
    /\ \A k \in Keys : addsSinceGet[k] < MaxPendingAdds
    /\ event' \in NotificationsOf("object", WatchedObjects, WatchedObjects)
                  \cup NotificationsOf("controller", WatchedDependents, OldDependents)
    /\ epc' = "delivered"
    /\ UNCHANGED <<labelFilter, trace, queue, dirty, processing, addsSinceGet>>
    /\ UNCHANGED exceptER

\* workqueue Add: a key that already needs processing is not added again; a
\* key a worker holds is only marked and waits for Done
QueueAdd(k) ==
    /\ addsSinceGet' = [addsSinceGet EXCEPT ![k] = @ + 1]
    /\ IF k \in dirty
       THEN UNCHANGED <<queue, dirty>>
       ELSE /\ dirty' = dirty \cup {k}
            /\ queue' = IF k \in processing THEN queue ELSE Append(queue, k)
    /\ UNCHANGED processing

\* the calls of q.Add one handler run makes (at most one)
Enqueue(adds) ==
    IF adds = <<>>
    THEN UNCHANGED <<queue, dirty, processing, addsSinceGet>>
    ELSE QueueAdd(adds[1])

\* a handler of WatchForObject runs
WatchForObject ==
    /\ epc = "delivered"
    /\ event.watch = "object"
    /\ LET done == objectEnqueueFn(ObjectHandlerFuncs(event))
       IN  /\ trace' = done
           /\ Enqueue(done.adds)
    /\ epc' = "handled"
    /\ UNCHANGED <<labelFilter, event>>
    /\ UNCHANGED exceptER

\* a handler of WatchForController runs
WatchForController ==
    /\ epc = "delivered"
    /\ event.watch = "controller"
    /\ \E r \in LookupResults :
         LET done == controllerEnqueueFn(ControllerHandlerFuncs(event), r)
         IN  /\ trace' = done
             /\ Enqueue(done.adds)
    /\ epc' = "handled"
    /\ UNCHANGED <<labelFilter, event>>
    /\ UNCHANGED exceptER

\* a caller hands a handler any value
NotifyAny ==
    /\ epc = "idle"
    /\ \A k \in Keys : addsSinceGet[k] < MaxPendingAdds
    /\ event' \in AnyNotifications
    /\ epc' = "delivered"
    /\ UNCHANGED <<labelFilter, trace, queue, dirty, processing, addsSinceGet>>
    /\ UNCHANGED exceptER

\* a handler of WatchForController runs with an fn that answers any
\* runtime.Object
WatchForControllerAny ==
    /\ epc = "delivered"
    /\ event.watch = "controller"
    /\ \E r \in AnyLookupResults :
         LET done == controllerEnqueueFn(ControllerHandlerFuncs(event), r)
         IN  /\ trace' = done
             /\ Enqueue(done.adds)
    /\ epc' = "handled"
    /\ UNCHANGED <<labelFilter, event>>
    /\ UNCHANGED exceptER

\* the handler returns to the informer
HandlerReturn ==
    /\ epc = "handled"
    /\ epc' = "idle"
    /\ event' = NoNotification
    /\ trace' = NoTrace
    /\ UNCHANGED <<labelFilter, queue, dirty, processing, addsSinceGet>>
    /\ UNCHANGED exceptER

\* workqueue Get: a reconciler worker takes the first waiting key
QueueGet ==
    /\ queue # <<>>
    /\ Cardinality(processing) < Cardinality(Workers)
    /\ LET k == Head(queue)
       IN  /\ queue' = Tail(queue)
           /\ processing' = processing \cup {k}
           /\ dirty' = dirty \ {k}
           /\ addsSinceGet' = [addsSinceGet EXCEPT ![k] = 0]
    /\ UNCHANGED <<labelFilter, epc, event, trace>>
    /\ UNCHANGED exceptER

\* workqueue Done: the worker releases its key; a key marked meanwhile goes
\* back to the queue
QueueDone ==
    /\ \E k \in processing :
         /\ processing' = processing \ {k}
         /\ queue' = IF k \in dirty THEN Append(queue, k) ELSE queue
    /\ UNCHANGED <<labelFilter, epc, event, trace, dirty, addsSinceGet>>
    /\ UNCHANGED exceptER

NextER ==
    \/ RegisterWatches
    \/ Notify
    \/ WatchForObject
    \/ WatchForController
    \/ HandlerReturn
    \/ QueueGet
    \/ QueueDone

NextERAny ==
    \/ RegisterWatches
    \/ NotifyAny
    \/ WatchForObject
    \/ WatchForControllerAny
    \/ HandlerReturn
    \/ QueueGet
    \/ QueueDone

(***************************************************************************)
(* Sub-service client resolver (GetPDMSClient)                             *)
(***************************************************************************)
\* longest Members list of one service of Status.PDMS
MaxMSMembers == 2

\* the PD micro services a cluster can run
ServiceNames == {"tso", "scheduling"}

MSMemberIds == 1..MaxMSMembers

\* a member of a service, as Status.PDMS lists it
MSMember(i) == <<"ms", i>>

NoMember == <<"", 0>>

\* lists of distinct members, in every order, up to MaxMSMembers long
RECURSIVE MSMemberListsUpTo(_)
MSMemberListsUpTo(n) ==
    IF n = 0 THEN {<<>>}
    ELSE LET shorter == MSMemberListsUpTo(n - 1)
         IN  shorter \cup
             {Append(s, MSMember(i)) : s \in {t \in shorter : Len(t) = n - 1},
                                       i \in MSMemberIds}

MSMemberLists == {s \in MSMemberListsUpTo(MaxMSMembers) : DistinctMembers(s)}

\* one entry of Status.PDMS: the service's name and its members
PDMSStatus == [Name : ServiceNames, Members : MSMemberLists]

\* Status.PDMS: no service, one, or one entry for each of two services
PDMSLists ==
    {<<>>} \cup { <<s>> : s \in PDMSStatus }
           \cup { p \in { <<s1, s2>> : s1 \in PDMSStatus, s2 \in PDMSStatus } :
                     p[1].Name # p[2].Name }

MSDescriptors ==
    [Namespace : {"ns"}, Name : {"demo"},
     TLS : BOOLEAN, ClusterDomain : {"", "dom"},
     Cluster : {NoCluster, ParentRef}, LocalPD : BOOLEAN,
     AcrossK8s : BOOLEAN, PDMS : PDMSLists]

NoMSDescriptor ==
    [Namespace |-> "", Name |-> "", TLS |-> FALSE, ClusterDomain |-> "",
     Cluster |-> NoCluster, LocalPD |-> FALSE, AcrossK8s |-> FALSE,
     PDMS |-> <<>>]

\* a handle is identified by the arguments pdControl.GetPDMSClient was given
MSHandle(ns, name, service, tls, certNs, certName, ref, headless, url, member) ==
    [ns |-> ns, name |-> name, service |-> service, tls |-> tls, certNs |-> certNs,
     certName |-> certName, clusterRef |-> ref, headless |-> headless,
     url |-> url, member |-> member, isNil |-> FALSE]

NilMSClient ==
    [ns |-> "", name |-> "", service |-> "", tls |-> FALSE, certNs |-> "",
     certName |-> "", clusterRef |-> "", headless |-> FALSE, url |-> NoMember,
     member |-> NoMember, isNil |-> TRUE]

\* getPDMSClientFromService with "or" where the code has "and"
getPDMSClientFromServiceEither(t, service) ==
    IF Heterogeneous(t) \/ WithoutLocalPD(t)
    THEN MSHandle(t.Cluster.Namespace, t.Cluster.Name, service, t.TLS,
                  t.Namespace, t.Name, t.Cluster.ClusterDomain, t.AcrossK8s,
                  NoMember, NoMember)
    ELSE MSHandle(t.Namespace, t.Name, service, t.TLS, "", "", t.ClusterDomain, FALSE,
                  NoMember, NoMember)

getPDMSClientFromService(t, service) ==
    IF Heterogeneous(t) /\ WithoutLocalPD(t)
    THEN MSHandle(t.Cluster.Namespace, t.Cluster.Name, service, t.TLS,
                  t.Namespace, t.Name, t.Cluster.ClusterDomain, t.AcrossK8s,
                  NoMember, NoMember)
    ELSE MSHandle(t.Namespace, t.Name, service, t.TLS, "", "", t.ClusterDomain, FALSE,
                  NoMember, NoMember)

\* pdControl.GetPDMSClient(ns, name, serviceName, tls,
\*                         SpecifyClient(pdMember, pdMember))
MSPeerClient(t, service, member) ==
    MSHandle(t.Namespace, t.Name, service, t.TLS, "", "", "", FALSE, member, member)

\* the endpoint a handle talks to: the pinned member, or the service
MSServiceEndpoint == <<"mssvc", 0>>
MSEndpoint(h) == IF h.url # NoMember THEN h.url ELSE MSServiceEndpoint

\* the endpoints a call on descriptor t can reach
MSEndpointsOf(t) ==
    {MSServiceEndpoint}
    \cup UNION { { t.PDMS[i].Members[j] : j \in 1..Len(t.PDMS[i].Members) } :
                    i \in 1..Len(t.PDMS) }

\* pdMSClient.GetHealth() returns a nil error
MSGetHealthOK(h) == MSEndpoint(h) \in msHealth

InitMS ==
    /\ msTc = NoMSDescriptor
    /\ serviceName = ""
    /\ msHealth = {}
    /\ mspc = "idle"
    /\ pdMSClient = NilMSClient
    /\ svcIdx = 0
    /\ memIdx = 0
    /\ msBuilt = <<>>
    /\ msProbes = <<>>
    /\ msRet = NilMSClient

\* a reconciler calls GetPDMSClient(pdControl, tc, serviceName); the health
\* of the endpoints is the environment's and stays as it is for the call
MSResolveCall ==
    /\ mspc = "idle"
    /\ \E t \in MSDescriptors : \E h \in SUBSET MSEndpointsOf(t) :
          /\ msTc' = t
          /\ msHealth' = h
    /\ serviceName' \in ServiceNames
    /\ mspc' = "fromService"
    /\ UNCHANGED <<pdMSClient, svcIdx, memIdx, msBuilt, msProbes, msRet>>
    /\ UNCHANGED exceptMS

\* pdMSClient := getPDMSClientFromService(pdControl, tc, serviceName)
MSGetFromService ==
    /\ mspc = "fromService"
    /\ pdMSClient' = getPDMSClientFromService(msTc, serviceName)
    /\ msBuilt' = Append(msBuilt, pdMSClient')
    /\ mspc' = "probeService"
    /\ UNCHANGED <<msTc, serviceName, msHealth, svcIdx, memIdx, msProbes, msRet>>
    /\ UNCHANGED exceptMS

\* MSProbeService preceded by the shortcut of GetPDClient: a descriptor
\* without members of the service gets the service-level handle unprobed
MSProbeServiceWithShortcut ==
    /\ mspc = "probeService"
    /\ IF \A i \in 1..Len(msTc.PDMS) :
            msTc.PDMS[i].Name = serviceName => msTc.PDMS[i].Members = <<>>
       THEN /\ msRet' = pdMSClient
            /\ mspc' = "done"
            /\ UNCHANGED <<svcIdx, msProbes>>
       ELSE /\ msProbes' = Append(msProbes, pdMSClient)
            /\ IF MSGetHealthOK(pdMSClient)
               THEN /\ msRet' = pdMSClient
                    /\ mspc' = "done"
                    /\ svcIdx' = svcIdx
               ELSE /\ msRet' = msRet
                    /\ mspc' = "rangeServices"
                    /\ svcIdx' = 1
    /\ UNCHANGED <<msTc, serviceName, msHealth, pdMSClient, memIdx, msBuilt>>
    /\ UNCHANGED exceptMS

\* err := pdMSClient.GetHealth(); if err == nil { return pdMSClient }
MSProbeService ==
    /\ mspc = "probeService"
    /\ msProbes' = Append(msProbes, pdMSClient)
    /\ IF MSGetHealthOK(pdMSClient)
       THEN /\ msRet' = pdMSClient
            /\ mspc' = "done"
            /\ svcIdx' = svcIdx
       ELSE /\ msRet' = msRet
            /\ mspc' = "rangeServices"
            /\ svcIdx' = 1
    /\ UNCHANGED <<msTc, serviceName, msHealth, pdMSClient, memIdx, msBuilt>>
    /\ UNCHANGED exceptMS

\* one iteration of: for _, service := range tc.Status.PDMS, up to the
\* inner loop: a service of another name is skipped
MSRangeServices ==
    /\ mspc = "rangeServices"
    /\ svcIdx <= Len(msTc.PDMS)
    /\ IF msTc.PDMS[svcIdx].Name # serviceName
       THEN /\ svcIdx' = svcIdx + 1
            /\ mspc' = "rangeServices"
            /\ memIdx' = memIdx
       ELSE /\ svcIdx' = svcIdx
            /\ mspc' = "rangeMembers"
            /\ memIdx' = 1
    /\ UNCHANGED <<msTc, serviceName, msHealth, pdMSClient, msBuilt, msProbes, msRet>>
    /\ UNCHANGED exceptMS

\* one iteration of: for _, pdMember := range service.Members
MSProbeMember ==
    /\ mspc = "rangeMembers"
    /\ memIdx <= Len(msTc.PDMS[svcIdx].Members)
    /\ LET pdMSPeerClient ==
               MSPeerClient(msTc, serviceName, msTc.PDMS[svcIdx].Members[memIdx])
       IN  /\ msBuilt' = Append(msBuilt, pdMSPeerClient)
           /\ msProbes' = Append(msProbes, pdMSPeerClient)
           /\ IF MSGetHealthOK(pdMSPeerClient)
              THEN /\ msRet' = pdMSPeerClient
                   /\ mspc' = "done"
                   /\ memIdx' = memIdx
              ELSE /\ msRet' = msRet
                   /\ mspc' = "rangeMembers"
                   /\ memIdx' = memIdx + 1
    /\ UNCHANGED <<msTc, serviceName, msHealth, pdMSClient, svcIdx>>
    /\ UNCHANGED exceptMS

\* the members of the service are exhausted: on to the next service
MSRangeMembersEnd ==
    /\ mspc = "rangeMembers"
    /\ memIdx > Len(msTc.PDMS[svcIdx].Members)
    /\ svcIdx' = svcIdx + 1
    /\ mspc' = "rangeServices"
    /\ UNCHANGED <<msTc, serviceName, msHealth, pdMSClient, memIdx, msBuilt, msProbes, msRet>>
    /\ UNCHANGED exceptMS

\* MSReturnNil failing open, as GetPDClient does
MSReturnNilFailsOpen ==
    /\ mspc = "rangeServices"
    /\ svcIdx > Len(msTc.PDMS)
    /\ msRet' = pdMSClient
    /\ mspc' = "done"
    /\ UNCHANGED <<msTc, serviceName, msHealth, pdMSClient, svcIdx, memIdx, msBuilt, msProbes>>
    /\ UNCHANGED exceptMS

\* the range is over and no probe succeeded: return nil
MSReturnNil ==
    /\ mspc = "rangeServices"
    /\ svcIdx > Len(msTc.PDMS)
    /\ msRet' = NilMSClient
    /\ mspc' = "done"
    /\ UNCHANGED <<msTc, serviceName, msHealth, pdMSClient, svcIdx, memIdx, msBuilt, msProbes>>
    /\ UNCHANGED exceptMS

\* the caller takes the result and the call's frame is gone
MSResolveReturn ==
    /\ mspc = "done"
    /\ msTc' = NoMSDescriptor
    /\ serviceName' = ""
    /\ msHealth' = {}
    /\ mspc' = "idle"
    /\ pdMSClient' = NilMSClient
    /\ svcIdx' = 0
    /\ memIdx' = 0
    /\ msBuilt' = <<>>
    /\ msProbes' = <<>>
    /\ msRet' = NilMSClient
    /\ UNCHANGED exceptMS

NextMS ==
    \/ MSResolveCall
    \/ MSGetFromService
    \/ MSProbeService
    \/ MSRangeServices
    \/ MSProbeMember
    \/ MSRangeMembersEnd
    \/ MSReturnNil
    \/ MSResolveReturn

\* a reconciler worker resolves one client at a time
PDResolveCall == mspc = "idle" /\ ResolveCall
PDMSResolveCall == rpc = "idle" /\ MSResolveCall

\* both resolvers, as one reconciler worker calls them
NextResolvers ==
    \/ PDResolveCall
    \/ GetFromService
    \/ ProbeService
    \/ ProbePeer
    \/ FailOpen
    \/ ResolveReturn
    \/ PDMSResolveCall
    \/ MSGetFromService
    \/ MSProbeService
    \/ MSRangeServices
    \/ MSProbeMember
    \/ MSRangeMembersEnd
    \/ MSReturnNil
    \/ MSResolveReturn

(***************************************************************************)
(* Owner-reference constructors (GetOwnerRef ... GetTiDBDashboardOwnerRef)  *)
(*                                                                         *)
(* A group/version/kind is a record; an apiVersion string is the sequence  *)
(* of its "/"-separated segments, as for ParseGroupVersion above.          *)
(***************************************************************************)
\* package v1alpha1: the version and group name of the operator's API
Version == "v1alpha1"
GroupName == "pingcap.com"

\* v1alpha1.SchemeGroupVersion and fedv1alpha1.SchemeGroupVersion
SchemeGroupVersion == [Group |-> GroupName, Version |-> Version]
FedSchemeGroupVersion == [Group |-> "federation.pingcap.com", Version |-> "v1alpha1"]

\* schema.GroupVersion.WithKind
WithKind(gv, kind) == [Group |-> gv.Group, Version |-> gv.Version, Kind |-> kind]

\* schema.GroupVersionKind.GroupVersion().String(): "group/version", or the
\* version alone when the group is empty
GroupVersionString(gvk) ==
    IF gvk.Group = "" THEN <<gvk.Version>> ELSE <<gvk.Group, gvk.Version>>

ControllerKind == WithKind(SchemeGroupVersion, "TidbCluster")
DMControllerKind == WithKind(SchemeGroupVersion, "DMCluster")
BackupControllerKind == WithKind(SchemeGroupVersion, "Backup")
CompactBackupControllerKind == WithKind(SchemeGroupVersion, "CompactBackup")
RestoreControllerKind == WithKind(SchemeGroupVersion, "Restore")
backupScheduleControllerKind == WithKind(SchemeGroupVersion, "BackupSchedule")
tidbMonitorControllerKind == WithKind(SchemeGroupVersion, "TidbMonitor")
tidbNGMonitoringKind == WithKind(SchemeGroupVersion, "TidbNGMonitoring")
tidbDashboardKind == WithKind(SchemeGroupVersion, "TidbDashboard")
FedVolumeBackupScheduleControllerKind == WithKind(FedSchemeGroupVersion, "VolumeBackupSchedule")

\* the owner objects handed to the constructors: GetName() and GetUID()
OwnerObjects(pkg, type) ==
    { [pkg |-> pkg, type |-> type, name |-> n, uid |-> u] :
        n \in {"a", "b", "c"}, u \in {"u1", "u2", "u3", "u4"} }
NoOwner == [pkg |-> "", type |-> "", name |-> "", uid |-> ""]
NoOwnerRef ==
    [APIVersion |-> <<>>, Kind |-> "", Name |-> "", UID |-> "",
     Controller |-> FALSE, BlockOwnerDeletion |-> FALSE]

\* GetBackupScheduleOwnerRef with the controller flag left false
GetBackupScheduleOwnerRefNotController(bs) ==
    [APIVersion |-> GroupVersionString(backupScheduleControllerKind),
     Kind |-> backupScheduleControllerKind.Kind,
     Name |-> bs.name,
     UID |-> bs.uid,
     Controller |-> FALSE,
     BlockOwnerDeletion |-> TRUE]

GetOwnerRef(o) ==
    [APIVersion |-> GroupVersionString(ControllerKind),
     Kind |-> ControllerKind.Kind,
     Name |-> o.name,
     UID |-> o.uid,
     Controller |-> TRUE,
     BlockOwnerDeletion |-> TRUE]

GetDMOwnerRef(o) ==
    [APIVersion |-> GroupVersionString(DMControllerKind),
     Kind |-> DMControllerKind.Kind,
     Name |-> o.name,
     UID |-> o.uid,
     Controller |-> TRUE,
     BlockOwnerDeletion |-> TRUE]

GetBackupOwnerRef(o) ==
    [APIVersion |-> GroupVersionString(BackupControllerKind),
     Kind |-> BackupControllerKind.Kind,
     Name |-> o.name,
     UID |-> o.uid,
     Controller |-> TRUE,
     BlockOwnerDeletion |-> TRUE]

GetCompactBackupOwnerRef(o) ==
    [APIVersion |-> GroupVersionString(CompactBackupControllerKind),
     Kind |-> CompactBackupControllerKind.Kind,
     Name |-> o.name,
     UID |-> o.uid,
     Controller |-> TRUE,
     BlockOwnerDeletion |-> TRUE]

GetRestoreOwnerRef(o) ==
    [APIVersion |-> GroupVersionString(RestoreControllerKind),
     Kind |-> RestoreControllerKind.Kind,
     Name |-> o.name,
     UID |-> o.uid,
     Controller |-> TRUE,
     BlockOwnerDeletion |-> TRUE]

GetBackupScheduleOwnerRef(o) ==
    [APIVersion |-> GroupVersionString(backupScheduleControllerKind),
     Kind |-> backupScheduleControllerKind.Kind,
     Name |-> o.name,
     UID |-> o.uid,
     Controller |-> TRUE,
     BlockOwnerDeletion |-> TRUE]

GetFedVolumeBackupScheduleOwnerRef(o) ==
    [APIVersion |-> GroupVersionString(FedVolumeBackupScheduleControllerKind),
     Kind |-> FedVolumeBackupScheduleControllerKind.Kind,
     Name |-> o.name,
     UID |-> o.uid,
     Controller |-> TRUE,
     BlockOwnerDeletion |-> TRUE]

GetTiDBMonitorOwnerRef(o) ==
    [APIVersion |-> GroupVersionString(tidbMonitorControllerKind),
     Kind |-> tidbMonitorControllerKind.Kind,
     Name |-> o.name,
     UID |-> o.uid,
     Controller |-> TRUE,
     BlockOwnerDeletion |-> TRUE]

GetTiDBNGMonitoringOwnerRef(o) ==
    [APIVersion |-> GroupVersionString(tidbNGMonitoringKind),
     Kind |-> tidbNGMonitoringKind.Kind,
     Name |-> o.name,
     UID |-> o.uid,
     Controller |-> TRUE,
     BlockOwnerDeletion |-> TRUE]

GetTiDBDashboardOwnerRef(o) ==
    [APIVersion |-> GroupVersionString(tidbDashboardKind),
     Kind |-> tidbDashboardKind.Kind,
     Name |-> o.name,
     UID |-> o.uid,
     Controller |-> TRUE,
     BlockOwnerDeletion |-> TRUE]

\* the constructors with the Go type of their parameter
OwnerRefConstructors == {
    [fn |-> "GetOwnerRef", pkg |-> "v1alpha1", type |-> "TidbCluster"],
    [fn |-> "GetDMOwnerRef", pkg |-> "v1alpha1", type |-> "DMCluster"],
    [fn |-> "GetBackupOwnerRef", pkg |-> "v1alpha1", type |-> "Backup"],
    [fn |-> "GetCompactBackupOwnerRef", pkg |-> "v1alpha1", type |-> "CompactBackup"],
    [fn |-> "GetRestoreOwnerRef", pkg |-> "v1alpha1", type |-> "Restore"],
    [fn |-> "GetBackupScheduleOwnerRef", pkg |-> "v1alpha1", type |-> "BackupSchedule"],
    [fn |-> "GetFedVolumeBackupScheduleOwnerRef", pkg |-> "fedv1alpha1", type |-> "VolumeBackupSchedule"],
    [fn |-> "GetTiDBMonitorOwnerRef", pkg |-> "v1alpha1", type |-> "TidbMonitor"],
    [fn |-> "GetTiDBNGMonitoringOwnerRef", pkg |-> "v1alpha1", type |-> "TidbNGMonitoring"],
    [fn |-> "GetTiDBDashboardOwnerRef", pkg |-> "v1alpha1", type |-> "TidbDashboard"] }

CallOwnerRefConstructor(fn, o) ==
    CASE fn = "GetOwnerRef" -> GetOwnerRef(o)
      [] fn = "GetDMOwnerRef" -> GetDMOwnerRef(o)
      [] fn = "GetBackupOwnerRef" -> GetBackupOwnerRef(o)
      [] fn = "GetCompactBackupOwnerRef" -> GetCompactBackupOwnerRef(o)
      [] fn = "GetRestoreOwnerRef" -> GetRestoreOwnerRef(o)
      [] fn = "GetBackupScheduleOwnerRef" -> GetBackupScheduleOwnerRef(o)
      [] fn = "GetFedVolumeBackupScheduleOwnerRef" -> GetFedVolumeBackupScheduleOwnerRef(o)
      [] fn = "GetTiDBMonitorOwnerRef" -> GetTiDBMonitorOwnerRef(o)
      [] fn = "GetTiDBNGMonitoringOwnerRef" -> GetTiDBNGMonitoringOwnerRef(o)
      [] fn = "GetTiDBDashboardOwnerRef" -> GetTiDBDashboardOwnerRef(o)

InitOR ==
    /\ ownerFn = ""
    /\ owner = NoOwner
    /\ ownerRef = NoOwnerRef

\* some caller builds the owner reference of one of its objects
BuildOwnerRef ==
    \E c \in OwnerRefConstructors : \E o \in OwnerObjects(c.pkg, c.type) :
        /\ ownerFn' = c.fn
        /\ owner' = o
        /\ ownerRef' = CallOwnerRefConstructor(c.fn, o)
        /\ UNCHANGED exceptOR

NextOR == BuildOwnerRef

(***************************************************************************)
(* InferObjectKind and EmptyClone                                          *)
(*                                                                         *)
(* scheme.Scheme maps a Go type to the list of kinds it was registered     *)
(* under (AddKnownTypeWithName appends a kind once); a type that was never *)
(* registered has no entry.                                                *)
(***************************************************************************)
\* longest list of kinds one type is registered under
MaxKinds == 3

RegistrableKinds ==
    {ControllerKind, BackupControllerKind, FedVolumeBackupScheduleControllerKind}
EmptyGVK == [Group |-> "", Version |-> "", Kind |-> ""]

RECURSIVE KindListsOfLen(_)
KindListsOfLen(n) ==
    IF n = 0 THEN { <<>> }
    ELSE { Append(l, k) : l \in KindListsOfLen(n - 1), k \in RegistrableKinds }

Distinct(l) == \A i, j \in 1..Len(l) : l[i] = l[j] => i = j

\* the scheme's entry for one type: absent, or a non-empty list without
\* repetition
NotRegistered == [ok |-> FALSE, gvks |-> <<>>]
SchemeEntries ==
    { NotRegistered } \cup
    { [ok |-> TRUE, gvks |-> l] :
        l \in { x \in UNION { KindListsOfLen(n) : n \in 1..MaxKinds } : Distinct(x) } }

\* the typed API objects handed to EmptyClone: every client.Object is a
\* metav1.Object; content stands for all fields but name and namespace
ClientObjects ==
    { [isMeta |-> TRUE, isClientObject |-> TRUE, name |-> n, namespace |-> ns,
       content |-> "set"] : n \in {"a", "b"}, ns \in {"", "ns"} }
NilObject ==
    [isMeta |-> FALSE, isClientObject |-> FALSE, name |-> "", namespace |-> "",
     content |-> ""]
NoKindRet == [gvk |-> EmptyGVK, inst |-> NilObject, err |-> "nil"]

\* scheme.Scheme.ObjectKinds for a typed object
ObjectKinds(s, o) ==
    IF ~s.ok THEN [gvks |-> <<>>, err |-> "notRegistered"]
    ELSE [gvks |-> s.gvks, err |-> "nil"]

\* InferObjectKind that takes the first kind when several are registered
InferObjectKindPicksFirst(s, o) ==
    LET r == ObjectKinds(s, o) IN
    IF r.err # "nil" THEN [gvk |-> EmptyGVK, err |-> r.err]
    ELSE IF Len(r.gvks) = 0 THEN [gvk |-> EmptyGVK, err |-> "ambiguous"]
    ELSE [gvk |-> r.gvks[1], err |-> "nil"]

InferObjectKind(s, o) ==
    LET r == ObjectKinds(s, o) IN
    IF r.err # "nil" THEN [gvk |-> EmptyGVK, err |-> r.err]
    ELSE IF Len(r.gvks) # 1 THEN [gvk |-> EmptyGVK, err |-> "ambiguous"]
    ELSE [gvk |-> r.gvks[1], err |-> "nil"]

\* scheme.Scheme.New: a zero value of the type registered under gvk, which
\* for a kind taken from the entry of o's type is o's own type
SchemeNew(s, o, gvk) ==
    IF s.ok /\ \E i \in 1..Len(s.gvks) : s.gvks[i] = gvk
    THEN [inst |-> [isMeta |-> o.isMeta, isClientObject |-> o.isClientObject,
                    name |-> "", namespace |-> "", content |-> ""],
          err |-> "nil"]
    ELSE [inst |-> NilObject, err |-> "notRegistered"]

EmptyClone(s, o) ==
    IF ~o.isMeta THEN [inst |-> NilObject, err |-> "notMetaObject"]
    ELSE LET k == InferObjectKind(s, o) IN
         IF k.err # "nil" THEN [inst |-> NilObject, err |-> k.err]
         ELSE LET n == SchemeNew(s, o, k.gvk) IN
              IF n.err # "nil" THEN [inst |-> NilObject, err |-> n.err]
              ELSE IF ~n.inst.isClientObject
                   THEN [inst |-> NilObject, err |-> "notClientObject"]
                   ELSE [inst |-> [n.inst EXCEPT !.name = o.name,
                                                 !.namespace = o.namespace],
                         err |-> "nil"]

InitOC ==
    /\ kindFn = ""
    /\ typeToGVK = NotRegistered
    /\ kindArg = NilObject
    /\ kindRet = NoKindRet

InferObjectKindCall ==
    \E s \in SchemeEntries, o \in ClientObjects :
        /\ kindFn' = "InferObjectKind"
        /\ typeToGVK' = s
        /\ kindArg' = o
        /\ kindRet' = [gvk |-> InferObjectKind(s, o).gvk, inst |-> NilObject,
                       err |-> InferObjectKind(s, o).err]
        /\ UNCHANGED exceptOC

EmptyCloneCall ==
    \E s \in SchemeEntries, o \in ClientObjects :
        /\ kindFn' = "EmptyClone"
        /\ typeToGVK' = s
        /\ kindArg' = o
        /\ kindRet' = [gvk |-> EmptyGVK, inst |-> EmptyClone(s, o).inst,
                       err |-> EmptyClone(s, o).err]
        /\ UNCHANGED exceptOC

NextOC ==
    \/ InferObjectKindCall
    \/ EmptyCloneCall

(***************************************************************************)
(* GetPDClient called by several workers that share pdControl              *)
(*                                                                         *)
(* pdControl keeps one handle per cluster key for all callers.  Each       *)
(* worker runs GetPDClient on its own copy of the descriptor; the health   *)
(* of the endpoints changes while the calls run.                           *)
(***************************************************************************)
\* members of the cluster that the workers resolve concurrently
MaxCacheMembers == 2

\* the descriptors of one cluster, as the workers' informers may hold them
CacheDescriptors ==
    { t \in Descriptors :
        /\ t.Cluster = NoCluster /\ t.LocalPD /\ ~t.AcrossK8s
        /\ ~t.TLS /\ t.ClusterDomain = ""
        /\ \A i \in 1..Len(t.PeerMembers) :
              \E j \in 1..MaxCacheMembers : t.PeerMembers[i] = PDMember(j) }

CacheEndpoints == UNION { EndpointsOf(t) : t \in CacheDescriptors }

\* the key of the shared cache: namespace, name and cluster domain
ClusterKey(h) == [ns |-> h.ns, name |-> h.name, clusterRef |-> h.clusterRef]

\* pdControl.GetPDClient: the cached handle of the key, created and stored
\* at the first request; a handle asked for with SpecifyClient is built for
\* the caller and not stored
pdControlGetPDClient(cache, h) ==
    IF h.url # NoURL THEN [client |-> h, cache |-> cache]
    ELSE IF \E c \in cache : ClusterKey(c) = ClusterKey(h)
         THEN [client |-> CHOOSE c \in cache : ClusterKey(c) = ClusterKey(h),
               cache |-> cache]
         ELSE [client |-> h, cache |-> cache \cup {h}]

IdleFrame ==
    [pc |-> "idle", tc |-> NoDescriptor, pdClient |-> NilClient, idx |-> 0,
     pdPeerClient |-> NilClient, ret |-> NilClient]

InitPC ==
    /\ pdClients = {}
    /\ alive = {}
    /\ frames = [w \in Workers |-> IdleFrame]

\* an endpoint fails or recovers, at any time
HealthChanges ==
    /\ \E e \in CacheEndpoints :
          alive' = IF e \in alive THEN alive \ {e} ELSE alive \cup {e}
    /\ UNCHANGED <<pdClients, frames>>
    /\ UNCHANGED exceptPC

WorkerResolveCall ==
    \E w \in Workers : \E t \in CacheDescriptors :
        /\ frames[w].pc = "idle"
        /\ frames' = [frames EXCEPT ![w] = [IdleFrame EXCEPT !.pc = "fromService", !.tc = t]]
        /\ UNCHANGED <<pdClients, alive>>
        /\ UNCHANGED exceptPC

\* pdClient := getPDClientFromService(pdControl, tc)
\* if len(tc.Status.PD.PeerMembers) == 0 { return pdClient }
WorkerGetFromService ==
    \E w \in Workers :
        LET f == frames[w]
            r == pdControlGetPDClient(pdClients, getPDClientFromService(f.tc))
        IN  /\ f.pc = "fromService"
            /\ pdClients' = r.cache
            /\ frames' = [frames EXCEPT ![w] =
                  IF Len(f.tc.PeerMembers) = 0
                  THEN [f EXCEPT !.pdClient = r.client, !.ret = r.client, !.pc = "done"]
                  ELSE [f EXCEPT !.pdClient = r.client, !.pc = "probeService"]]
            /\ UNCHANGED alive
            /\ UNCHANGED exceptPC

\* _, err := pdClient.GetHealth(); if err == nil { return pdClient }
WorkerProbeService ==
    \E w \in Workers :
        LET f == frames[w] IN
        /\ f.pc = "probeService"
        /\ frames' = [frames EXCEPT ![w] =
              IF Endpoint(f.pdClient) \in alive
              THEN [f EXCEPT !.ret = f.pdClient, !.pc = "done"]
              ELSE [f EXCEPT !.idx = 1, !.pc = "range"]]
        /\ UNCHANGED <<pdClients, alive>>
        /\ UNCHANGED exceptPC

\* WorkerProbePeer that puts the healthy pinned handle into the shared
\* cache in place of the cluster's handle
WorkerProbePeerCachesPinned ==
    \E w \in Workers :
        LET f == frames[w] IN
        /\ f.pc = "range"
        /\ f.idx <= Len(f.tc.PeerMembers)
        /\ LET r == pdControlGetPDClient(pdClients, PeerClient(f.tc, f.tc.PeerMembers[f.idx]))
           IN  /\ pdClients' =
                     IF Endpoint(r.client) \in alive
                     THEN { c \in r.cache : ClusterKey(c) # ClusterKey(r.client) }
                             \cup {r.client}
                     ELSE r.cache
               /\ frames' = [frames EXCEPT ![w] =
                     IF Endpoint(r.client) \in alive
                     THEN [f EXCEPT !.pdPeerClient = r.client, !.ret = r.client, !.pc = "done"]
                     ELSE [f EXCEPT !.pdPeerClient = r.client, !.idx = f.idx + 1]]
        /\ UNCHANGED alive
        /\ UNCHANGED exceptPC

\* one iteration of: for _, pdMember := range tc.Status.PD.PeerMembers
WorkerProbePeer ==
    \E w \in Workers :
        LET f == frames[w] IN
        /\ f.pc = "range"
        /\ f.idx <= Len(f.tc.PeerMembers)
        /\ LET r == pdControlGetPDClient(pdClients, PeerClient(f.tc, f.tc.PeerMembers[f.idx]))
           IN  /\ pdClients' = r.cache
               /\ frames' = [frames EXCEPT ![w] =
                     IF Endpoint(r.client) \in alive
                     THEN [f EXCEPT !.pdPeerClient = r.client, !.ret = r.client, !.pc = "done"]
                     ELSE [f EXCEPT !.pdPeerClient = r.client, !.idx = f.idx + 1]]
        /\ UNCHANGED alive
        /\ UNCHANGED exceptPC

\* the range is over and no probe succeeded: return pdClient
WorkerFailOpen ==
    \E w \in Workers :
        LET f == frames[w] IN
        /\ f.pc = "range"
        /\ f.idx > Len(f.tc.PeerMembers)
        /\ frames' = [frames EXCEPT ![w] = [f EXCEPT !.ret = f.pdClient, !.pc = "done"]]
        /\ UNCHANGED <<pdClients, alive>>
        /\ UNCHANGED exceptPC

\* the caller takes the handle and the frame is gone
WorkerResolveReturn ==
    \E w \in Workers :
        /\ frames[w].pc = "done"
        /\ frames' = [frames EXCEPT ![w] = IdleFrame]
        /\ UNCHANGED <<pdClients, alive>>
        /\ UNCHANGED exceptPC

NextPC ==
    \/ HealthChanges
    \/ WorkerResolveCall
    \/ WorkerGetFromService
    \/ WorkerProbeService
    \/ WorkerProbePeer
    \/ WorkerFailOpen
    \/ WorkerResolveReturn

(***************************************************************************)
(* Typed control errors: RequeueError and IgnoreError                      *)
(*                                                                         *)
(* An error value is the chain its Unwrap method walks: the outermost      *)
(* error first, each layer with its dynamic type and message; nil is the   *)
(* empty chain.  Only fmt's wrapError has an Unwrap method.                *)
(***************************************************************************)
\* layers of fmt.Errorf("...: %w", err) around one error
MaxWrap == 2

NilError == <<>>

\* fmt.Sprintf(format, a...): the format with its verb replaced
Sprintf(format, a) ==
    [i \in DOMAIN format |-> IF format[i] = "%v" THEN a ELSE format[i]]

ErrorFormats == { <<"retry">>, <<"wait", "for", "%v">> }
ErrorArgs == {"pd", "tikv", "tidb"}
WrapPrefixes == {"sync", "backup", "restore"}

\* &RequeueError{fmt.Sprintf(format, a...)}
RequeueErrorf(format, a) == << [type |-> "*RequeueError", s |-> Sprintf(format, a)] >>

\* &IgnoreError{fmt.Sprintf(format, a...)}
IgnoreErrorf(format, a) == << [type |-> "*IgnoreError", s |-> Sprintf(format, a)] >>

\* fmt.Errorf without %w: an error of neither type
Errorf(format, a) == << [type |-> "*errorString", s |-> Sprintf(format, a)] >>

\* fmt.Errorf(prefix + ": %w", err)
Wrap(prefix, err) == << [type |-> "*wrapError", s |-> <<prefix>> \o err[1].s] >> \o err

\* errors.Unwrap: what the Unwrap method of the outermost error returns
Unwrap(err) ==
    IF err # NilError /\ err[1].type = "*wrapError" THEN Tail(err) ELSE NilError

\* IsRequeueError by a type assertion on err itself
IsRequeueErrorByAssertion(err) ==
    err # NilError /\ err[1].type = "*RequeueError"

\* stderrs.As(err, &rerr) with rerr a *RequeueError: the first error of the
\* chain of that type
RECURSIVE IsRequeueError(_)
IsRequeueError(err) ==
    IF err = NilError THEN FALSE
    ELSE IF err[1].type = "*RequeueError" THEN TRUE
    ELSE IsRequeueError(Unwrap(err))

\* _, ok := err.(*IgnoreError)
IsIgnoreError(err) ==
    err # NilError /\ err[1].type = "*IgnoreError"

InitTE ==
    /\ lastErr = NilError
    /\ isRequeue = FALSE
    /\ isIgnore = FALSE

\* a reconciler got err and asks both predicates about it
Classified(err) ==
    /\ lastErr' = err
    /\ isRequeue' = IsRequeueError(err)
    /\ isIgnore' = IsIgnoreError(err)
    /\ UNCHANGED exceptTE

ReturnsRequeueError ==
    \E f \in ErrorFormats, a \in ErrorArgs : Classified(RequeueErrorf(f, a))

ReturnsIgnoreError ==
    \E f \in ErrorFormats, a \in ErrorArgs : Classified(IgnoreErrorf(f, a))

ReturnsPlainError ==
    \E f \in ErrorFormats, a \in ErrorArgs : Classified(Errorf(f, a))

\* a caller up the stack wraps the error it got
ReturnsWrapped ==
    /\ lastErr # NilError
    /\ Len(lastErr) <= MaxWrap
    /\ \E p \in WrapPrefixes : Classified(Wrap(p, lastErr))

NextTE ==
    \/ ReturnsRequeueError
    \/ ReturnsIgnoreError
    \/ ReturnsPlainError
    \/ ReturnsWrapped

Init == InitPD /\ InitGU /\ InitER /\ InitMS /\ InitOR /\ InitOC /\ InitPC /\ InitTE

SpecPD == Init /\ [][NextPD]_vars

\* a call that has started runs to its return: the goroutine executing
\* GetPDClient is scheduled until then
SpecPDLive ==
    /\ SpecPD
    /\ WF_vars(GetFromService)
    /\ WF_vars(ProbeService)
    /\ WF_vars(ProbePeer)
    /\ WF_vars(FailOpen)

SpecGU == Init /\ [][NextGU]_vars

\* the caller's goroutine is scheduled until GuaranteedUpdate returns, and
\* the store answers every request
SpecGULive ==
    /\ SpecGU
    /\ WF_vars(GUGet(Caller))
    /\ WF_vars(GUMutate(Caller))
    /\ WF_vars(GUUpdate(Caller))

SpecGUC == Init /\ [][NextGUC]_vars

SpecER == Init /\ [][NextER]_vars

SpecERAny == Init /\ [][NextERAny]_vars

SpecMS == Init /\ [][NextMS]_vars

SpecResolvers == Init /\ [][NextResolvers]_vars

SpecOR == Init /\ [][NextOR]_vars

SpecOC == Init /\ [][NextOC]_vars

SpecPC == Init /\ [][NextPC]_vars

SpecTE == Init /\ [][NextTE]_vars

(***************************************************************************)
(* Properties of the guaranteed update                                     *)
(***************************************************************************)
Events(w) == log[w].events
Served(w) == log[w].served
Written(w) == log[w].written

LastEvent(w) == Events(w)[Len(Events(w))]

\* positions of the events of w with operation op and error err
EventsOf(w, op, err) ==
    {i \in 1..Len(Events(w)) : Events(w)[i].op = op /\ Events(w)[i].err = err}

\* positions of the events of w with operation op in attempt a
EventsIn(w, op, a) ==
    {i \in 1..Len(Events(w)) : Events(w)[i].op = op /\ Events(w)[i].att = a}

\* event i of w ended the call with the error of that event
EndsCall(w, i) ==
    /\ i = Len(Events(w))
    /\ gpc[w] = "done"
    /\ result[w] = Events(w)[i].err

\* event i of w was followed by a new attempt, which starts with a fetch
StartsNextAttempt(w, i) ==
    /\ i < Len(Events(w)) =>
          /\ Events(w)[i + 1].op = "get"
          /\ Events(w)[i + 1].att = Events(w)[i].att + 1
    /\ i = Len(Events(w)) =>
          /\ gpc[w] = "get"
          /\ attempt[w] = Events(w)[i].att + 1

\* inside an attempt the mutation follows a successful fetch and a write
\* follows a successful mutation
AttemptOrder(w) ==
    \A i \in 1..Len(Events(w)) :
        LET e == Events(w)[i]
        IN  /\ e.op = "mutate" =>
                  /\ i > 1
                  /\ Events(w)[i - 1] = [op |-> "get", err |-> "nil", att |-> e.att]
            /\ e.op = "update" =>
                  /\ i > 1
                  /\ Events(w)[i - 1] = [op |-> "mutate", err |-> "nil", att |-> e.att]

\* C5: when the mutation leaves the fetched record equal to its snapshot the
\* call returns success without a write: no write is pending or issued in
\* that attempt, and value and resourceVersion of the store are not this
\* call's.
C5_NoOpNoWrite ==
    \A w \in Workers :
        /\ gpc[w] = "update" => obj[w] # beforeMutation[w]
        /\ ( /\ Len(Events(w)) > 0
             /\ LastEvent(w) = [op |-> "mutate", err |-> "nil", att |-> attempt[w]]
             /\ Mutate(updateFunc[w], Served(w)) = Served(w) ) =>
                /\ gpc[w] = "done"
                /\ result[w] = "nil"
                /\ EventsIn(w, "update", attempt[w]) = {}
                /\ ~Written(w).done
                /\ store.by # w

\* the second attempt found the record already as the mutation leaves it
C5_Witness ==
    /\ gpc[Caller] = "done"
    /\ updateFunc[Caller] = "set"
    /\ attempt[Caller] = 2
    /\ EventsOf(Caller, "update", "Conflict") # {}
    /\ LastEvent(Caller).op = "mutate"
    /\ result[Caller] = "nil"

\* every error of the call was a conflict answered to its write
OnlyWriteConflicts(w) ==
    \A i \in 1..Len(Events(w)) :
        \/ Events(w)[i].err = "nil"
        \/ Events(w)[i].op = "update" /\ Events(w)[i].err = "Conflict"

\* C6: a call whose writes were rejected with a conflict N < Steps times,
\* and that met no other error, returns success in attempt N + 1, and what
\* it persisted is the mutation applied once to the record as the store
\* served it in that attempt, which was still the stored record.
C6_SuccessAfterConflicts ==
    \A w \in Workers :
        LET n == Cardinality(EventsOf(w, "update", "Conflict"))
        IN  (gpc[w] = "done" /\ OnlyWriteConflicts(w) /\ n < Steps) =>
                /\ result[w] = "nil"
                /\ attempt[w] = n + 1
                /\ Written(w).done =>
                      /\ Written(w).val = Mutate(updateFunc[w], Served(w)).val
                      /\ Written(w).prevRv = Served(w).rv
                      /\ Cardinality(EventsOf(w, "update", "nil")) = 1
                /\ ~Written(w).done =>
                      Mutate(updateFunc[w], Served(w)) = Served(w)

C6_Witness ==
    /\ gpc[Caller] = "done"
    /\ updateFunc[Caller] = "inc"
    /\ Cardinality(EventsOf(Caller, "update", "Conflict")) = Steps - 1
    /\ result[Caller] = "nil"
    /\ Written(Caller).done
    /\ Written(Caller).val = (Served(Caller).val + 1) % (MaxVal + 1)

\* every attempt of the budget issued a write and every write was rejected
\* with a conflict
Exhausted(w) ==
    /\ gpc[w] = "done"
    /\ Cardinality(EventsOf(w, "update", "Conflict")) = Steps

\* C7 as claimed: when the last write of the budget is rejected the call
\* fails and the store holds the value fetched in that last attempt.
C7_Claimed ==
    [][\A w \in Workers :
         (gpc[w] = "update" /\ Exhausted(w)') =>
             /\ result'[w] # "nil"
             /\ store'.val = beforeMutation[w].val]_vars

\* C7 amended: a call all of whose Steps writes were rejected with a
\* conflict returns that conflict and none of its writes was accepted: the
\* stored value and resourceVersion are those the other writers left.
C7_ExhaustedNoWrite ==
    \A w \in Workers :
        Exhausted(w) =>
            /\ result[w] = "Conflict"
            /\ attempt[w] = Steps
            /\ ~Written(w).done
            /\ store.by # w

C7_Witness ==
    /\ Exhausted(Caller)
    /\ result[Caller] = "Conflict"
    /\ store.val # beforeMutation[Caller].val

\* C8 as claimed: whatever error the mutation returns ends the call with
\* that error.
C8_Claimed ==
    \A w \in Workers : \A i \in 1..Len(Events(w)) :
        (Events(w)[i].op = "mutate" /\ Events(w)[i].err # "nil") =>
            /\ EndsCall(w, i)
            /\ EventsIn(w, "update", Events(w)[i].att) = {}

\* C8 amended: an error of the mutation never lets the attempt write; an
\* error that is not a conflict ends the call with that error, while an
\* error that errors.IsConflict takes for a conflict starts the next attempt
\* and ends the call only in the last attempt of the budget.
C8_MutateError ==
    \A w \in Workers : \A i \in 1..Len(Events(w)) :
        LET e == Events(w)[i]
        IN  (e.op = "mutate" /\ e.err # "nil") =>
                /\ EventsIn(w, "update", e.att) = {}
                /\ IF IsConflict(e.err) /\ e.att < Steps
                   THEN StartsNextAttempt(w, i)
                   ELSE EndsCall(w, i)

C8_Witness ==
    /\ gpc[Caller] = "done"
    /\ updateFunc[Caller] = "fail"
    /\ result[Caller] = "Failed"
    /\ Len(Events(Caller)) = 2
    /\ store.by # Caller

\* C9: a fetch that fails with an error that is no conflict ends the call
\* with that error; the attempt neither invokes the mutation nor writes.
C9_FetchError ==
    \A w \in Workers : \A i \in 1..Len(Events(w)) :
        LET e == Events(w)[i]
        IN  (e.op = "get" /\ e.err # "nil" /\ ~IsConflict(e.err)) =>
                /\ EndsCall(w, i)
                /\ EventsIn(w, "mutate", e.att) = {}
                /\ EventsIn(w, "update", e.att) = {}

\* the record was deleted between two attempts
C9_Witness ==
    /\ gpc[Caller] = "done"
    /\ attempt[Caller] = 2
    /\ LastEvent(Caller) = [op |-> "get", err |-> "NotFound", att |-> 2]
    /\ result[Caller] = "NotFound"

C11_NoLostUpdate ==
    /\ \A w \in Workers :
          Written(w).done =>
              /\ Written(w).prevRv = Served(w).rv
              /\ Written(w).prevVal = Served(w).val
              /\ Written(w).val = Mutate(updateFunc[w], Served(w)).val
    /\ \A w1, w2 \in Workers :
          (w1 # w2 /\ Written(w1).done /\ Written(w2).done) =>
              \/ Written(w1).prevRv >= Written(w2).rv
              \/ Written(w2).prevRv >= Written(w1).rv
    /\ ( /\ extWrites = 0
         /\ \A w \in Workers :
               gpc[w] = "done" /\ result[w] = "nil" /\ updateFunc[w] = "inc" ) =>
            store.val = Cardinality(Workers) % (MaxVal + 1)

\* both workers increment, one of them after a conflict
C11_Witness ==
    /\ extWrites = 0
    /\ \A w \in Workers :
          gpc[w] = "done" /\ result[w] = "nil" /\ updateFunc[w] = "inc"
    /\ \E w \in Workers : EventsOf(w, "update", "Conflict") # {}
    /\ store.val = 2

(***************************************************************************)
(* Properties of the event router                                          *)
(***************************************************************************)
\* a handler of WatchForController / WatchForObject runs in this step
ControllerHandlerRuns ==
    epc = "delivered" /\ epc' = "handled" /\ event.watch = "controller"
ObjectHandlerRuns ==
    epc = "delivered" /\ epc' = "handled" /\ event.watch = "object"

\* a handler of WatchForController / WatchForObject has just run
ControllerHandlerRan == epc = "handled" /\ event.watch = "controller"
ObjectHandlerRan == epc = "handled" /\ event.watch = "object"

QueueUntouched == UNCHANGED <<queue, dirty, processing, addsSinceGet>>

HasControllerRef(o) ==
    \E i \in DOMAIN o.ownerReferences : o.ownerReferences[i].Controller

Occurrences(q, k) == Cardinality({ i \in DOMAIN q : q[i] = k })

\* the object fn answered is of the kind and the group the reference names
RefMatchesAnswer(o, r) ==
    /\ GetControllerOf(o).Kind = r.kind
    /\ ParseGroupVersion(GetControllerOf(o).APIVersion).Group = r.group

\* C12: in owner-indirection mode a notification (add, update or delete)
\* on an object without an owner reference marked as controller calls
\* neither q.Add nor the owner lookup, and leaves the work queue as it was.
C12_NoControllerRefNoEnqueue ==
    [][ (ControllerHandlerRuns /\ ~HasControllerRef(event.cur)) =>
            /\ trace'.lookups = <<>>
            /\ trace'.adds = <<>>
            /\ QueueUntouched ]_vars

\* an updated object that passed the label filter and whose only owner
\* reference is not a controller reference
C12_Witness ==
    /\ ControllerHandlerRan
    /\ event.type = "update"
    /\ event.cur.type = "object"
    /\ labelFilter.isNil \/ labelFilter.kv \subseteq event.cur.labels
    /\ event.cur.ownerReferences # <<>>
    /\ ~HasControllerRef(event.cur)
    /\ HasControllerRef(event.old)
    /\ trace.lookups = <<>>
    /\ trace.adds = <<>>

\* C13: in owner-indirection mode, when the object the owner lookup
\* returned is of another kind or of another API group than the controller
\* owner reference names, the handler calls q.Add for no key and leaves
\* the work queue as it was.
C13_MismatchNoEnqueue ==
    [][ ( /\ ControllerHandlerRuns
          /\ trace'.answer.err = "nil"
          /\ ~RefMatchesAnswer(event.cur, trace'.answer) ) =>
            /\ trace'.adds = <<>>
            /\ QueueUntouched ]_vars

\* the looked-up object has the kind of the reference but another group
C13_Witness ==
    /\ ControllerHandlerRan
    /\ trace.answer.err = "nil"
    /\ GetControllerOf(event.cur).Kind = trace.answer.kind
    /\ ParseGroupVersion(GetControllerOf(event.cur).APIVersion).Group # trace.answer.group
    /\ trace.adds = <<>>

\* the key of the controller that the notified object's reference names
ControllerKeyOf(o) == MetaNamespaceKey(o.namespace, GetControllerOf(o).Name)

\* the work queue holds no key twice; a key added since it was last handed
\* to a worker waits in the queue exactly once, or is held back until the
\* worker that processes it is done
QueueHoldsKeysOnce ==
    \A k \in Keys :
        /\ Occurrences(queue, k) <= 1
        /\ addsSinceGet[k] >= 1 =>
               Occurrences(queue, k) = (IF k \in processing THEN 0 ELSE 1)

\* C14: in owner-indirection mode, when the object the owner lookup
\* returned is of the kind and the API group the controller owner
\* reference names, the handler calls q.Add exactly once, with the
\* namespace/name key of that controller, and no other key of the queue
\* changes; however many such notifications arrive before a worker takes
\* the key, the queue holds it exactly once.
C14_EnqueuesControllerKeyOnce ==
    /\ []QueueHoldsKeysOnce
    /\ [][ ( /\ ControllerHandlerRuns
             /\ trace'.answer.err = "nil"
             /\ RefMatchesAnswer(event.cur, trace'.answer) ) =>
               /\ trace'.adds = << ControllerKeyOf(event.cur) >>
               /\ ControllerKeyOf(event.cur) \in dirty'
               /\ dirty' \ {ControllerKeyOf(event.cur)} = dirty \ {ControllerKeyOf(event.cur)}
               /\ \A k \in Keys \ {ControllerKeyOf(event.cur)} :
                      /\ Occurrences(queue', k) = Occurrences(queue, k)
                      /\ addsSinceGet'[k] = addsSinceGet[k]
               /\ processing' = processing ]_vars

\* the second matching notification for a key that still waits in the queue
C14_Witness ==
    /\ ControllerHandlerRan
    /\ trace.answer.err = "nil"
    /\ RefMatchesAnswer(event.cur, trace.answer)
    /\ trace.adds = << ControllerKeyOf(event.cur) >>
    /\ addsSinceGet[ControllerKeyOf(event.cur)] >= 2
    /\ Occurrences(queue, ControllerKeyOf(event.cur)) = 1

\* C15: with a label filter configured (m is not nil) in owner-indirection
\* mode, an object whose labels do not hold every key/value pair of the
\* filter makes the handler call neither the owner lookup nor q.Add,
\* whatever its owner references; with no filter (m is nil) the handler
\* does not read the labels, and every object with a controller reference
\* of a well-formed API version reaches the owner lookup.
C15_LabelFilter ==
    [][ ControllerHandlerRuns =>
          /\ ( /\ ~labelFilter.isNil
               /\ ~(labelFilter.kv \subseteq event.cur.labels) ) =>
                 ( trace'.lookups = <<>> /\ trace'.adds = <<>> /\ QueueUntouched )
          /\ labelFilter.isNil =>
                 /\ ~trace'.labelsRead
                 /\ ( /\ HasControllerRef(event.cur)
                      /\ ~ParseGroupVersion(GetControllerOf(event.cur).APIVersion).err ) =>
                         trace'.lookups # <<>> ]_vars

\* an object that has one of the two labels of the filter and a controller
\* reference to a controller of the served group
C15_Witness ==
    /\ ControllerHandlerRan
    /\ labelFilter = [isNil |-> FALSE, kv |-> {<<"app", "x">>, <<"tier", "db">>}]
    /\ event.cur.type = "object"
    /\ event.cur.labels = {<<"app", "x">>}
    /\ HasControllerRef(event.cur)
    /\ GetControllerOf(event.cur).APIVersion = <<"pingcap.com", "v1alpha1">>
    /\ trace.labelsRead
    /\ trace.lookups = <<>>
    /\ trace.adds = <<>>

\* C16: in owner-indirection mode, when the owner lookup returns an error
\* the handler calls q.Add for no key and leaves the work queue as it was;
\* for a not-found error it makes no call of utilruntime.HandleError, for
\* any other error exactly one.
C16_LookupFailure ==
    [][ ( /\ ControllerHandlerRuns
          /\ trace'.answer.err \notin {"none", "nil"} ) =>
            /\ trace'.adds = <<>>
            /\ QueueUntouched
            /\ Len(trace'.lookups) = 1
            /\ trace'.errors = (IF trace'.answer.err = "NotFound" THEN 0 ELSE 1) ]_vars

\* a lookup that failed with an error other than not-found
C16_Witness ==
    /\ ControllerHandlerRan
    /\ trace.answer.err = "Other"
    /\ trace.errors = 1
    /\ trace.adds = <<>>

\* C17: in direct mode each add, update and delete notification calls
\* q.Add exactly once, with the namespace/name key of the notified object
\* (for an update: of the current object), after which the key needs
\* processing; in both modes the handler of every notification type does
\* what enqueueFn does on the current object, whatever the previous one.
C17_DirectMode ==
    [][ /\ ObjectHandlerRuns =>
            /\ event.type \in NotificationTypes
            /\ trace' = objectEnqueueFn(event.cur)
            /\ trace'.adds = << MetaNamespaceKey(event.cur.namespace, event.cur.name) >>
            /\ MetaNamespaceKey(event.cur.namespace, event.cur.name) \in dirty'
            /\ \/ Occurrences(queue', MetaNamespaceKey(event.cur.namespace, event.cur.name)) = 1
               \/ MetaNamespaceKey(event.cur.namespace, event.cur.name) \in processing'
        /\ ControllerHandlerRuns =>
            /\ event.type \in NotificationTypes
            /\ trace' = controllerEnqueueFn(event.cur, trace'.answer) ]_vars

\* an update whose previous object has another key than the current one
C17_Witness ==
    /\ ObjectHandlerRan
    /\ event.type = "update"
    /\ event.old.name # event.cur.name
    /\ trace.adds = << MetaNamespaceKey(event.cur.namespace, event.cur.name) >>
    /\ Occurrences(queue, MetaNamespaceKey(event.cur.namespace, event.cur.name)) = 1

(***************************************************************************)
(* Properties of the sub-service client resolver                           *)
(***************************************************************************)
MSServiceHealthy == MSServiceEndpoint \in msHealth

\* the members Status.PDMS lists for the service name, in stored order
RECURSIVE MembersFrom(_, _, _)
MembersFrom(t, service, i) ==
    IF i > Len(t.PDMS) THEN <<>>
    ELSE (IF t.PDMS[i].Name = service THEN t.PDMS[i].Members ELSE <<>>)
         \o MembersFrom(t, service, i + 1)

ListedMembers == MembersFrom(msTc, serviceName, 1)

\* positions of ListedMembers whose endpoint is healthy
MSHealthyPositions == { i \in 1..Len(ListedMembers) : ListedMembers[i] \in msHealth }

\* h is the service-level handle of the running call: the first handle the
\* call obtained, for the requested service, not pinned to any member
IsMSServiceHandle(h) ==
    /\ Len(msBuilt) >= 1
    /\ h = msBuilt[1]
    /\ h = pdMSClient
    /\ h.service = serviceName
    /\ h.url = NoMember
    /\ h.member = NoMember
    /\ ~h.isNil

\* h is pinned to member m of the requested service
MSPinnedTo(h, m) ==
    /\ ~h.isNil
    /\ h.service = serviceName
    /\ h.url = m
    /\ h.member = m
    /\ h.ns = msTc.Namespace
    /\ h.name = msTc.Name

\* C18: GetPDMSClient returns nil, not the service-level handle, when the
\* service endpoint is unhealthy and no member listed for the service name
\* is healthy, the case of no listed member included; a handle it returns
\* is one it probed during the call, and the probe succeeded.
C18_NilOnTotalFailure ==
    mspc = "done" =>
        /\ (~MSServiceHealthy /\ MSHealthyPositions = {}) => msRet = NilMSClient
        /\ ~msRet.isNil =>
              /\ \E i \in 1..Len(msProbes) : msProbes[i] = msRet
              /\ MSEndpoint(msRet) \in msHealth

\* two members listed for the service, nothing healthy
C18_Witness ==
    /\ mspc = "done"
    /\ Len(ListedMembers) = 2
    /\ msHealth = {}
    /\ Len(msProbes) = 3
    /\ msRet = NilMSClient

\* C19 as claimed: GetPDMSClient returns the service-level handle without
\* any probe when no member is listed for the service, and returns the
\* healthy service-level handle without probing members.
C19_Claimed ==
    mspc = "done" =>
        /\ ListedMembers = <<>> => (IsMSServiceHandle(msRet) /\ msProbes = <<>>)
        /\ MSServiceHealthy => (IsMSServiceHandle(msRet) /\ Len(msBuilt) = 1)

\* C19: GetPDMSClient has no shortcut for a descriptor without members: it
\* always probes the service-level handle first. If that probe succeeds it
\* returns the handle and neither builds nor probes a member's client.
\* Otherwise it probes the members listed for the service name in stored
\* order, each through a client pinned to it, up to the first healthy one,
\* which it returns; with no healthy member, and so with no member listed,
\* it returns nil after these probes.
C19_AlwaysProbesService ==
    mspc = "done" =>
        /\ Len(msProbes) >= 1
        /\ IsMSServiceHandle(msProbes[1])
        /\ msBuilt = msProbes
        /\ MSServiceHealthy => (msRet = pdMSClient /\ Len(msProbes) = 1)
        /\ ~MSServiceHealthy =>
              LET n == IF MSHealthyPositions = {} THEN Len(ListedMembers)
                       ELSE CHOOSE k \in MSHealthyPositions :
                                \A j \in MSHealthyPositions : k <= j
              IN  /\ Len(msProbes) = n + 1
                  /\ \A i \in 1..n : MSPinnedTo(msProbes[i + 1], ListedMembers[i])
                  /\ msRet = (IF MSHealthyPositions = {} THEN NilMSClient
                              ELSE msProbes[n + 1])
        /\ ListedMembers = <<>> =>
              /\ Len(msProbes) = 1
              /\ msRet = (IF MSServiceHealthy THEN pdMSClient ELSE NilMSClient)

\* no member listed for the service, which is listed after another one
\* whose member is healthy, and an unhealthy service endpoint: one probe, nil
C19_Witness ==
    /\ mspc = "done"
    /\ Len(msTc.PDMS) = 2
    /\ ListedMembers = <<>>
    /\ msHealth = {MSMember(1)}
    /\ msProbes = <<pdMSClient>>
    /\ msRet = NilMSClient

\* the client key of a service-level handle built from the parent cluster
KeyFromParent(h, t) ==
    /\ h.ns = t.Cluster.Namespace
    /\ h.name = t.Cluster.Name
    /\ h.clusterRef = t.Cluster.ClusterDomain
    /\ h.certNs = t.Namespace
    /\ h.certName = t.Name
    /\ h.headless = t.AcrossK8s

\* the client key of a service-level handle built from the cluster itself
KeyFromLocal(h, t) ==
    /\ h.ns = t.Namespace
    /\ h.name = t.Name
    /\ h.clusterRef = t.ClusterDomain
    /\ h.certNs = ""
    /\ h.certName = ""
    /\ h.headless = FALSE

\* C20: the first handle GetPDClient obtains is keyed by the parent
\* cluster's namespace, name and domain, with the certificate taken from
\* the cluster's own namespace and name and the headless-service flag from
\* its AcrossK8s, exactly when the cluster is heterogeneous and has no PD
\* of its own; otherwise it is keyed by the cluster's own namespace, name
\* and domain, with no certificate source and no headless flag. In both
\* cases it carries the cluster's TLS flag and is pinned to no member. The
\* same holds for the first handle GetPDMSClient obtains, which is for the
\* requested service.
C20_ServiceKey ==
    /\ built # <<>> =>
          /\ built[1].tls = tc.TLS
          /\ built[1].url = NoURL /\ built[1].member = NoName
          /\ IF Heterogeneous(tc) /\ WithoutLocalPD(tc)
             THEN KeyFromParent(built[1], tc) /\ ~KeyFromLocal(built[1], tc)
             ELSE KeyFromLocal(built[1], tc) /\ ~KeyFromParent(built[1], tc)
    /\ msBuilt # <<>> =>
          /\ msBuilt[1].tls = msTc.TLS
          /\ msBuilt[1].service = serviceName
          /\ msBuilt[1].url = NoMember /\ msBuilt[1].member = NoMember
          /\ IF Heterogeneous(msTc) /\ WithoutLocalPD(msTc)
             THEN KeyFromParent(msBuilt[1], msTc) /\ ~KeyFromLocal(msBuilt[1], msTc)
             ELSE KeyFromLocal(msBuilt[1], msTc) /\ ~KeyFromParent(msBuilt[1], msTc)

\* a heterogeneous cluster without PD, across Kubernetes clusters, resolves
\* the client of a micro service
C20_Witness ==
    /\ mspc = "done"
    /\ Heterogeneous(msTc) /\ WithoutLocalPD(msTc)
    /\ msTc.AcrossK8s
    /\ msTc.ClusterDomain = "dom"
    /\ msBuilt[1].ns = ParentRef.Namespace
    /\ msBuilt[1].clusterRef = ParentRef.ClusterDomain
    /\ msBuilt[1].headless
    /\ msRet = msBuilt[1]

(***************************************************************************)
(* Properties of the owner-reference constructors                          *)
(***************************************************************************)
\* the API group of the package an owner's Go type is declared in
GroupOfPackage(pkg) ==
    IF pkg = "fedv1alpha1" THEN "federation.pingcap.com" ELSE "pingcap.com"

\* C21: every owner reference a constructor returns has controller = true
\* and blockOwnerDeletion = true, carries the name and the UID of the owner
\* passed in, and carries the kind and the API group/version of the resource
\* type that constructor is for; none has controller = false.
C21_OwnerRefShape ==
    ownerFn # "" =>
        /\ ownerRef.Controller = TRUE
        /\ ownerRef.BlockOwnerDeletion = TRUE
        /\ ownerRef.Name = owner.name
        /\ ownerRef.UID = owner.uid
        /\ ownerRef.Kind = owner.type
        /\ ownerRef.APIVersion = <<GroupOfPackage(owner.pkg), "v1alpha1">>
        /\ ParseGroupVersion(ownerRef.APIVersion).err = FALSE
        /\ ParseGroupVersion(ownerRef.APIVersion).Group = GroupOfPackage(owner.pkg)

\* a backup schedule's owner reference was built
C21_Witness ==
    /\ ownerFn = "GetBackupScheduleOwnerRef"
    /\ owner.type = "BackupSchedule"
    /\ ownerRef.Name = owner.name
    /\ ownerRef.Controller = TRUE

(***************************************************************************)
(* Properties of InferObjectKind and EmptyClone                            *)
(***************************************************************************)
\* the kinds registered for the type of the argument
RegisteredKinds ==
    IF typeToGVK.ok THEN { typeToGVK.gvks[i] : i \in 1..Len(typeToGVK.gvks) } ELSE {}

KindFailure ==
    IF RegisteredKinds = {} THEN "notRegistered" ELSE "ambiguous"

\* C22: InferObjectKind returns a kind only when exactly one registered
\* kind matches the type of the object, and then that kind; with several it
\* fails as ambiguous and with none as not registered, returning no kind;
\* EmptyClone returns that same failure and no object, and otherwise an
\* object that has the name and namespace of its argument and nothing else.
C22_KindInference ==
    /\ kindFn = "InferObjectKind" =>
          /\ (kindRet.err = "nil") <=> (Cardinality(RegisteredKinds) = 1)
          /\ kindRet.err = "nil" => RegisteredKinds = {kindRet.gvk}
          /\ kindRet.err # "nil" =>
                /\ kindRet.gvk = EmptyGVK
                /\ kindRet.err = KindFailure
    /\ kindFn = "EmptyClone" =>
          /\ Cardinality(RegisteredKinds) # 1 =>
                /\ kindRet.inst = NilObject
                /\ kindRet.err = KindFailure
          /\ Cardinality(RegisteredKinds) = 1 =>
                /\ kindRet.err = "nil"
                /\ kindRet.inst.name = kindArg.name
                /\ kindRet.inst.namespace = kindArg.namespace
                /\ kindRet.inst.content = ""

\* EmptyClone was called on an object whose type is registered under
\* several kinds
C22_Witness ==
    /\ kindFn = "EmptyClone"
    /\ Cardinality(RegisteredKinds) > 1
    /\ kindRet.err = "ambiguous"
    /\ kindArg \in ClientObjects

(***************************************************************************)
(* Properties of the shared client cache                                   *)
(***************************************************************************)
IsPinned(h) == ~h.isNil /\ h.url # NoURL

FirstHealthyPosition ==
    CHOOSE k \in HealthyPositions : \A i \in HealthyPositions : k <= i

\* C24: with an unhealthy service and several healthy peer members the call
\* returns the handle pinned to the healthy member of lowest position, and
\* at no time of the call has a member after that position been probed or
\* had a client built for it.
C24_FirstHealthyWins ==
    (rpc # "idle" /\ ~ServiceHealthy /\ Cardinality(HealthyPositions) >= 2) =>
        LET k == FirstHealthyPosition IN
        /\ Len(probes) <= k + 1
        /\ Len(built) <= k + 1
        /\ \A i \in 2..Len(built) : PinnedTo(built[i], tc.PeerMembers[i - 1])
        /\ \A i \in 2..Len(probes) : probes[i] = built[i]
        /\ rpc = "done" =>
              /\ PinnedTo(ret, tc.PeerMembers[k])
              /\ Len(probes) = k + 1
              /\ Len(built) = k + 1

\* three members, the first unhealthy, the second and third healthy: the
\* call returned the second and never reached the third
C24_Witness ==
    /\ rpc = "done"
    /\ Len(tc.PeerMembers) = 3
    /\ ~ServiceHealthy
    /\ HealthyPositions = {2, 3}
    /\ PinnedTo(ret, tc.PeerMembers[2])
    /\ Len(built) = 3

\* every probe of the running call is of its own position: the service
\* handle first, then member i as probe i + 1
ProbesOncePerEntry ==
    rpc # "idle" =>
        /\ Len(probes) <= 1 + Len(tc.PeerMembers)
        /\ Len(probes) >= 1 => probes[1] = pdClient
        /\ \A i \in 2..Len(probes) : PinnedTo(probes[i], tc.PeerMembers[i - 1])
        /\ \A i, j \in 1..Len(probes) : i # j => Endpoint(probes[i]) # Endpoint(probes[j])

\* C25: every call of GetPDClient returns, after at most 1 + n health
\* probes for n peer members: the service handle is probed at most once and
\* each member at most once, and no failed probe is repeated.
C25_TerminatesWithinBudget ==
    /\ []ProbesOncePerEntry
    /\ (rpc = "fromService") ~> (rpc = "done")

\* a call on three members, all endpoints down, has returned after four probes
C25_Witness ==
    /\ rpc = "done"
    /\ Len(tc.PeerMembers) = 3
    /\ health = {}
    /\ Len(probes) = 4

(***************************************************************************)
(* Further properties of the guaranteed update                             *)
(***************************************************************************)
\* attempt a of w is past its fetch
FetchedIn(w, a) ==
    \/ a < attempt[w]
    \/ a = attempt[w] /\ gpc[w] \in {"mutate", "update", "done"}

\* the attempts of the caller so far: at most Steps of them, each with one
\* fetch, at most one mutation, after the fetch and on the record as it was
\* fetched, and at most one write; at most one write of the call succeeded,
\* and it was the call's last request
AttemptsWithinBudget ==
    LET w == Caller IN
    /\ attempt[w] <= Steps
    /\ \A i \in 1..Len(Events(w)) : Events(w)[i].att \in 1..attempt[w]
    /\ \A a \in 1..attempt[w] :
          /\ Cardinality(EventsIn(w, "get", a)) = (IF FetchedIn(w, a) THEN 1 ELSE 0)
          /\ Cardinality(EventsIn(w, "mutate", a)) <= 1
          /\ Cardinality(EventsIn(w, "update", a)) <= 1
    /\ AttemptOrder(w)
    /\ gpc[w] = "mutate" =>
          /\ obj[w] = Served(w)
          /\ obj[w] = beforeMutation[w]
    /\ Cardinality(EventsOf(w, "update", "nil")) <= 1
    /\ \A i \in EventsOf(w, "update", "nil") : i = Len(Events(w)) /\ gpc[w] = "done"

HandlerRuns == ControllerHandlerRuns \/ ObjectHandlerRuns

\* the handler step added exactly key k to the queue's bookkeeping
AddsOnlyKey(k) ==
    /\ addsSinceGet' = [addsSinceGet EXCEPT ![k] = @ + 1]
    /\ dirty' = dirty \cup {k}
    /\ queue' \in {queue, Append(queue, k)}

\* the notified value is no metadata-bearing object (owner-indirection mode)
NotMetaObject == event.watch = "controller" /\ event.cur.type # "object"

\* the controller reference of the notified object has an API version that
\* does not parse
OwnerVersionUnparsable ==
    /\ event.watch = "controller"
    /\ event.cur.type = "object"
    /\ ~FilteredOut(event.cur)
    /\ HasControllerRef(event.cur)
    /\ ParseGroupVersion(GetControllerOf(event.cur).APIVersion).err

\* no key can be computed: of the notified value in direct mode, of the
\* object fn answered in owner-indirection mode
KeyNotComputable ==
    \/ /\ event.watch = "object"
       /\ DeletionHandlingMetaNamespaceKeyFunc(event.cur).err
    \/ /\ event.watch = "controller"
       /\ trace'.answer.err = "nil"
       /\ ~trace'.answer.meta
       /\ RefMatchesAnswer(event.cur, trace'.answer)

InnermostError == lastErr[Len(lastErr)]
ChainTypes == { lastErr[i].type : i \in 1..Len(lastErr) }
IsWrapped == Len(lastErr) > 1

\* the message the innermost error was built with, as format and argument
BuiltWith(format, a) == InnermostError.s = Sprintf(format, a)

\* C28: the predicates go by the type of the error, not by its message:
\* for one and the same message the error of RequeueErrorf is a requeue
\* error and no ignore error, that of IgnoreErrorf the reverse, and a plain
\* error neither; no error is both; IsRequeueError finds a RequeueError
\* under any number of wrappers, IsIgnoreError only an IgnoreError that is
\* not wrapped.
C28_ClassifiedByType ==
    lastErr # NilError =>
        /\ isRequeue = ("*RequeueError" \in ChainTypes)
        /\ isIgnore = (lastErr[1].type = "*IgnoreError")
        /\ ~(isRequeue /\ isIgnore)
        /\ (IsWrapped /\ InnermostError.type = "*RequeueError") => isRequeue
        /\ (IsWrapped /\ InnermostError.type = "*IgnoreError") => ~isIgnore
        /\ \A f \in ErrorFormats, a \in ErrorArgs :
              BuiltWith(f, a) =>
                 /\ IsRequeueError(RequeueErrorf(f, a)) /\ ~IsIgnoreError(RequeueErrorf(f, a))
                 /\ IsIgnoreError(IgnoreErrorf(f, a)) /\ ~IsRequeueError(IgnoreErrorf(f, a))
                 /\ ~IsRequeueError(Errorf(f, a)) /\ ~IsIgnoreError(Errorf(f, a))
                 /\ RequeueErrorf(f, a)[1].s = IgnoreErrorf(f, a)[1].s
                 /\ RequeueErrorf(f, a)[1].s = Errorf(f, a)[1].s

\* a RequeueError under two wrappers was recognised as a requeue error
C28_Witness ==
    /\ Len(lastErr) = 3
    /\ InnermostError.type = "*RequeueError"
    /\ lastErr[1].type = "*wrapError"
    /\ isRequeue
    /\ ~isIgnore

====
